---- MODULE Spec2Model ----
(***************************************************************************)
(* Model of the points bot's channel-membership reconciliation engine:     *)
(* the SQLite tables of database.py as one record `db`, the Database       *)
(* methods as operators from a database value to a database value, and     *)
(* the asyncio tasks (update handlers of bot_handlers.py/admin_handlers.py *)
(* and the periodic_channel_check loop of main.py) as processes that       *)
(* yield exactly where the code awaits a call to the chat platform.        *)
(***************************************************************************)
EXTENDS Integers, Sequences, FiniteSets, TLC

(* ------------------------------------------------------------------ *)
(* Program constants                                                   *)
(* ------------------------------------------------------------------ *)

\* config.py: ADMIN_ID (a platform user id; ids are modelled as names).
ADMIN_ID == "admin"

\* database.py, update_channel_members: the literal 8117492678 used as the
\* excluded id when a channel has no order.
DEFAULT_OWNER_ID == "id8117492678"

DAILY_REWARD_POINTS == 4
REFERRAL_POINTS == 5
NORMAL_CHANNEL_POINTS == 3
VIP_CHANNEL_POINTS == 4

\* bot_handlers.py: the penalty passed by _check_channel_leavers and
\* _verify_user_subscriptions, and the one passed by the list filter pass.
LEAVE_PENALTY == 5
NO_PENALTY == 0

\* config.py: SHOP_PRICES, members -> points.
SHOP_PRICES == (10 :> 20) @@ (25 :> 50) @@ (50 :> 100) @@ (100 :> 200)

(* ------------------------------------------------------------------ *)
(* Bounds of the model                                                 *)
(* ------------------------------------------------------------------ *)

Users == {"u1", "u2", ADMIN_ID}
Channels == {"a", "b"}
ChannelTypes == {"normal", "vip"}

\* Largest target an admin gives a channel.
MaxTarget == 2
\* Updates dispatched to handlers, scheduler ticks, membership changes on the
\* platform, and failed platform calls, per behaviour.
MaxUpdates == 3
MaxTicks == 1
MaxMoves == 2
MaxErrors == 1
\* Balance a non-admin user may hold when the run starts.
RichPoints == 20

NoUser == "nobody"
NoChan == "nochan"

(* ------------------------------------------------------------------ *)
(* The database (database.py)                                          *)
(* ------------------------------------------------------------------ *)

\* A function without the key k.
Without(f, k) == [x \in DOMAIN f \ {k} |-> f[x]]

\* A function with f[k] = v, k added to the domain when missing.
With(f, k, v) == [x \in DOMAIN f \cup {k} |-> IF x = k THEN v ELSE f[x]]

\* init_database: every table empty.
EmptyFn == [x \in {} |-> 0]

EmptyDB ==
    [ users |-> EmptyFn, channels |-> EmptyFn, orders |-> <<>>, subs |-> {},
      leavers |-> EmptyFn, channel_seq |-> 0,
      codes |-> EmptyFn, code_usage |-> <<>>, mandatory |-> {} ]

\* The users row an INSERT makes: the defaults of the table, the referrer
\* given (NoUser stands for NULL).  last_daily_reward tells whether a daily
\* reward was claimed less than a day ago.
NewUserRow(referred_by) ==
    [ points |-> 0, channels_joined |-> 0, referrals |-> 0,
      referred_by |-> referred_by, last_daily_reward |-> FALSE ]

\* add_user (INSERT OR IGNORE) as used by handle_callback: no referrer.
AddUser(d, u) ==
    IF u \in DOMAIN d.users THEN d
    ELSE [d EXCEPT !.users = With(@, u, NewUserRow(NoUser))]

\* add_user with a referrer: a new row increments the referrer's referrals;
\* the value returned is the rowcount of the last statement run, so that of
\* the UPDATE of the referrer when there is one.
AddUserReferred(d, u, referred_by) ==
    IF u \in DOMAIN d.users THEN [db |-> d, ret |-> FALSE]
    ELSE
      LET d1 == [d EXCEPT !.users = With(@, u, NewUserRow(referred_by))]
      IN  IF referred_by = NoUser THEN [db |-> d1, ret |-> TRUE]
          ELSE IF referred_by \in DOMAIN d1.users
          THEN [db |-> [d1 EXCEPT !.users[referred_by].referrals = @ + 1],
                ret |-> TRUE]
          ELSE [db |-> d1, ret |-> FALSE]

\* Mutant: the balance is written as a value, as set_user_points does.
UpdateUserPoints_Sets(d, u, pts) ==
    IF u \in DOMAIN d.users
    THEN [d EXCEPT !.users[u].points = pts]
    ELSE d

\* update_user_points: points = points + ? WHERE id = ?
UpdateUserPoints(d, u, pts) ==
    IF u \in DOMAIN d.users
    THEN [d EXCEPT !.users[u].points = @ + pts]
    ELSE d

\* claim_daily_reward: nothing unless can_claim_daily_reward; else
\* points = points + ?, last_daily_reward = now.
ClaimDailyReward(d, u, pts) ==
    IF u \notin DOMAIN d.users \/ d.users[u].last_daily_reward THEN d
    ELSE [d EXCEPT !.users[u].points = @ + pts,
                   !.users[u].last_daily_reward = TRUE]

\* get_user_subscriptions / get_channel_subscribers
GetUserSubscriptions(d, u) == {c \in Channels : <<u, c>> \in d.subs}
GetChannelSubscribers(d, c) == {s[1] : s \in {x \in d.subs : x[2] = c}}

\* get_active_channels(channel_type): rows with active = 1, optional type.
GetActiveChannels(d) == {c \in DOMAIN d.channels : d.channels[c].active}
GetActiveChannelsOfType(d, ty) ==
    {c \in DOMAIN d.channels : d.channels[c].active /\ d.channels[c].type = ty}

\* Mutant: an existing row is reset but its subscriptions are kept.
AddChannel_KeepsSubscriptions(d, username, channel_type, target, order_id) ==
    IF username \in DOMAIN d.channels
    THEN [d EXCEPT
            !.channels[username] =
                [@ EXCEPT !.active = TRUE, !.type = channel_type,
                          !.target = target, !.gained = 0,
                          !.current_count = 0, !.order_id = order_id]]
    ELSE [d EXCEPT
            !.channel_seq = @ + 1,
            !.channels = With(@, username,
                [id |-> d.channel_seq + 1, type |-> channel_type,
                 target |-> target, gained |-> 0, current_count |-> 0,
                 active |-> TRUE, order_id |-> order_id])]

\* add_channel: an existing row (active or not) is reset: its subscriptions
\* are deleted and the row is written active with gained = 0 and the new
\* type, target and order; otherwise a new row is inserted.  Returns True.
AddChannel(d, username, channel_type, target, order_id) ==
    IF username \in DOMAIN d.channels
    THEN [d EXCEPT
            !.subs = {s \in @ : s[2] # username},
            !.channels[username] =
                [@ EXCEPT !.active = TRUE, !.type = channel_type,
                          !.target = target, !.gained = 0,
                          !.current_count = 0, !.order_id = order_id]]
    ELSE [d EXCEPT
            !.channel_seq = @ + 1,
            !.channels = With(@, username,
                [id |-> d.channel_seq + 1, type |-> channel_type,
                 target |-> target, gained |-> 0, current_count |-> 0,
                 active |-> TRUE, order_id |-> order_id])]

\* remove_channel: DELETE FROM channels WHERE username = ?
RemoveChannel(d, username) == [d EXCEPT !.channels = Without(@, username)]

\* The id update_channel_members leaves out of the count: the owner of the
\* channel's order, else the literal default.  order_id 0 stands for NULL.
ExcludedOwner(d, order_id) ==
    IF order_id # 0 /\ order_id \in DOMAIN d.orders
    THEN d.orders[order_id].user_id
    ELSE DEFAULT_OWNER_ID

\* Mutant: the count leaves nobody out.
CountGained_WithOwner(d, username, order_owner_id) ==
    Cardinality({u \in DOMAIN d.users : <<u, username>> \in d.subs})

\* SELECT COUNT(*) FROM user_channel_subscriptions INNER JOIN users
\* WHERE channel_username = ? AND u.id != ?
CountGained(d, username, order_owner_id) ==
    Cardinality({u \in DOMAIN d.users :
                    <<u, username>> \in d.subs /\ u # order_owner_id})

\* Mutant: the order is completed but the channel stays active.
CompleteChannel_StaysActive(d, username, order_id) ==
    IF order_id # 0 /\ order_id \in DOMAIN d.orders
    THEN [d EXCEPT !.orders[order_id].status = "completed",
                   !.orders[order_id].completed_at = TRUE]
    ELSE d

\* The writes update_channel_members makes once the target is reached.
CompleteChannel(d, username, order_id) ==
    LET d1 == [d EXCEPT !.channels[username].active = FALSE]
    IN  IF order_id # 0 /\ order_id \in DOMAIN d1.orders
        THEN [d1 EXCEPT !.orders[order_id].status = "completed",
                        !.orders[order_id].completed_at = TRUE]
        ELSE d1

\* Mutant: the channel is completed one subscriber before its target.
UpdateChannelMembers_CompletesEarly(d, username) ==
    IF username \notin DOMAIN d.channels \/ ~d.channels[username].active
    THEN [db |-> d, completed |-> FALSE, owner |-> NoUser]
    ELSE
      LET row == d.channels[username]
          gained_members == CountGained(d, username, ExcludedOwner(d, row.order_id))
          d1 == [d EXCEPT !.channels[username].gained = gained_members,
                          !.channels[username].current_count = gained_members]
      IN  IF gained_members >= row.target - 1
          THEN [db |-> CompleteChannel(d1, username, row.order_id),
                completed |-> TRUE,
                owner |-> IF row.order_id # 0 /\ row.order_id \in DOMAIN d.orders
                          THEN d.orders[row.order_id].user_id ELSE NoUser]
          ELSE [db |-> d1, completed |-> FALSE, owner |-> NoUser]

\* Mutant: gained is incremented instead of counted.
UpdateChannelMembers_Increments(d, username) ==
    IF username \notin DOMAIN d.channels \/ ~d.channels[username].active
    THEN [db |-> d, completed |-> FALSE, owner |-> NoUser]
    ELSE
      LET row == d.channels[username]
          gained_members == row.gained + 1
          d1 == [d EXCEPT !.channels[username].gained = gained_members,
                          !.channels[username].current_count = gained_members]
      IN  IF gained_members >= row.target
          THEN [db |-> CompleteChannel(d1, username, row.order_id),
                completed |-> TRUE,
                owner |-> IF row.order_id # 0 /\ row.order_id \in DOMAIN d.orders
                          THEN d.orders[row.order_id].user_id ELSE NoUser]
          ELSE [db |-> d1, completed |-> FALSE, owner |-> NoUser]

\* Mutant: the row is read without `AND active = 1`.
UpdateChannelMembers_IgnoresActive(d, username) ==
    IF username \notin DOMAIN d.channels
    THEN [db |-> d, completed |-> FALSE, owner |-> NoUser]
    ELSE
      LET row == d.channels[username]
          gained_members == CountGained(d, username, ExcludedOwner(d, row.order_id))
          d1 == [d EXCEPT !.channels[username].gained = gained_members,
                          !.channels[username].current_count = gained_members]
      IN  IF gained_members >= row.target
          THEN [db |-> CompleteChannel(d1, username, row.order_id),
                completed |-> TRUE,
                owner |-> IF row.order_id # 0 /\ row.order_id \in DOMAIN d.orders
                          THEN d.orders[row.order_id].user_id ELSE NoUser]
          ELSE [db |-> d1, completed |-> FALSE, owner |-> NoUser]

\* update_channel_members: (completed, order_owner_id) and the database.
\* A channel that is missing or inactive is left alone: (False, None).
UpdateChannelMembers(d, username) ==
    IF username \notin DOMAIN d.channels \/ ~d.channels[username].active
    THEN [db |-> d, completed |-> FALSE, owner |-> NoUser]
    ELSE
      LET row == d.channels[username]
          gained_members == CountGained(d, username, ExcludedOwner(d, row.order_id))
          d1 == [d EXCEPT !.channels[username].gained = gained_members,
                          !.channels[username].current_count = gained_members]
      IN  IF gained_members >= row.target
          THEN [db |-> CompleteChannel(d1, username, row.order_id),
                completed |-> TRUE,
                owner |-> IF row.order_id # 0 /\ row.order_id \in DOMAIN d.orders
                          THEN d.orders[row.order_id].user_id ELSE NoUser]
          ELSE [db |-> d1, completed |-> FALSE, owner |-> NoUser]

\* remove_channel_leaver
RemoveChannelLeaver(d, u, c) == [d EXCEPT !.leavers = Without(@, <<u, c>>)]

\* Mutant: the award is made whether or not the INSERT added a row.
UserJoinedChannel_NoRowcount(d, u, c, pts) ==
    LET d1 == [d EXCEPT !.subs = @ \cup {<<u, c>>}]
        d2 == IF u \in DOMAIN d1.users
              THEN [d1 EXCEPT !.users[u].points = @ + pts,
                              !.users[u].channels_joined = @ + 1]
              ELSE d1
    IN  [db |-> RemoveChannelLeaver(d2, u, c), ret |-> TRUE]

\* Mutant: a new Subscription leaves the leaver fact in place.
UserJoinedChannel_KeepsLeaver(d, u, c, pts) ==
    IF <<u, c>> \in d.subs
    THEN [db |-> d, ret |-> FALSE]
    ELSE
      LET d1 == [d EXCEPT !.subs = @ \cup {<<u, c>>}]
          d2 == IF u \in DOMAIN d1.users
                THEN [d1 EXCEPT !.users[u].points = @ + pts,
                                !.users[u].channels_joined = @ + 1]
                ELSE d1
      IN  [db |-> d2, ret |-> TRUE]

\* user_joined_channel: INSERT OR IGNORE; only a new row awards the points,
\* increments channels_joined and clears the leaver fact.
UserJoinedChannel(d, u, c, pts) ==
    IF <<u, c>> \in d.subs
    THEN [db |-> d, ret |-> FALSE]
    ELSE
      LET d1 == [d EXCEPT !.subs = @ \cup {<<u, c>>}]
          d2 == IF u \in DOMAIN d1.users
                THEN [d1 EXCEPT !.users[u].points = @ + pts,
                                !.users[u].channels_joined = @ + 1]
                ELSE d1
      IN  [db |-> RemoveChannelLeaver(d2, u, c), ret |-> TRUE]

\* Mutant: the debit and the leaver fact are written whether or not the
\* DELETE removed a row.
PenalizeChannelLeaver_NoRowcount(d, u, c, penalty_points) ==
    LET d1 == [d EXCEPT !.subs = @ \ {<<u, c>>}]
        d2 == IF u \notin DOMAIN d1.users THEN d1
              ELSE IF penalty_points > 0
              THEN [d1 EXCEPT !.users[u].points = @ - penalty_points,
                              !.users[u].channels_joined = @ - 1]
              ELSE [d1 EXCEPT !.users[u].channels_joined = @ - 1]
    IN  [d2 EXCEPT !.leavers = With(@, <<u, c>>,
            [previously_subscribed |-> <<u, c>> \in d.subs,
             penalty_applied |-> penalty_points > 0])]

\* Mutant: a leave without penalty keeps channels_joined.
PenalizeChannelLeaver_ZeroKeepsCount(d, u, c, penalty_points) ==
    IF <<u, c>> \notin d.subs THEN d
    ELSE
      LET d1 == [d EXCEPT !.subs = @ \ {<<u, c>>}]
          d2 == IF u \notin DOMAIN d1.users THEN d1
                ELSE IF penalty_points > 0
                THEN [d1 EXCEPT !.users[u].points = @ - penalty_points,
                                !.users[u].channels_joined = @ - 1]
                ELSE d1
      IN  [d2 EXCEPT !.leavers = With(@, <<u, c>>,
              [previously_subscribed |-> TRUE,
               penalty_applied |-> penalty_points > 0])]

\* Mutant: the debit stops at a balance of zero.
PenalizeChannelLeaver_Clamped(d, u, c, penalty_points) ==
    IF <<u, c>> \notin d.subs THEN d
    ELSE
      LET d1 == [d EXCEPT !.subs = @ \ {<<u, c>>}]
          d2 == IF u \notin DOMAIN d1.users THEN d1
                ELSE IF penalty_points > 0
                THEN [d1 EXCEPT !.users[u].points =
                                    IF @ - penalty_points < 0 THEN 0
                                    ELSE @ - penalty_points,
                                !.users[u].channels_joined = @ - 1]
                ELSE [d1 EXCEPT !.users[u].channels_joined = @ - 1]
      IN  [d2 EXCEPT !.leavers = With(@, <<u, c>>,
              [previously_subscribed |-> TRUE,
               penalty_applied |-> penalty_points > 0])]

\* penalize_channel_leaver: nothing happens unless the DELETE removed a row.
PenalizeChannelLeaver(d, u, c, penalty_points) ==
    IF <<u, c>> \notin d.subs THEN d
    ELSE
      LET was_subscribed == <<u, c>> \in d.subs
          d1 == [d EXCEPT !.subs = @ \ {<<u, c>>}]
          d2 == IF u \notin DOMAIN d1.users THEN d1
                ELSE IF penalty_points > 0
                THEN [d1 EXCEPT !.users[u].points = @ - penalty_points,
                                !.users[u].channels_joined = @ - 1]
                ELSE [d1 EXCEPT !.users[u].channels_joined = @ - 1]
      IN  [d2 EXCEPT !.leavers = With(@, <<u, c>>,
              [previously_subscribed |-> was_subscribed,
               penalty_applied |-> penalty_points > 0])]

\* add_mandatory_channel (INSERT OR REPLACE) and get_mandatory_channels.
AddMandatoryChannel(d, channel_username) ==
    [d EXCEPT !.mandatory = @ \cup {channel_username}]
GetMandatoryChannels(d) == d.mandatory

\* create_code: INSERT INTO codes; the UNIQUE code makes a second insert
\* raise IntegrityError: False.
CreateCode(d, code, points, usage_limit) ==
    IF code \in DOMAIN d.codes
    THEN [db |-> d, ret |-> FALSE]
    ELSE [db |-> [d EXCEPT !.codes = With(@, code,
                    [points |-> points, usage_limit |-> usage_limit,
                     used_count |-> 0, active |-> TRUE])],
          ret |-> TRUE]

\* The rows of code_usage for a code, and whether one is the user's.
UsageRows(d, code) == {i \in 1..Len(d.code_usage) : d.code_usage[i][1] = code}
HasUsed(d, u, code) == \E i \in UsageRows(d, code) : d.code_usage[i][2] = u

\* Mutant: the code's limit is not looked at.
RedeemCode_NoLimit(d, u, code) ==
    IF code \notin DOMAIN d.codes \/ ~d.codes[code].active
    THEN [db |-> d, ret |-> "None", points |-> 0]
    ELSE
      LET code_info == d.codes[code]
      IN  IF HasUsed(d, u, code)
          THEN [db |-> d, ret |-> "AlreadyUsed", points |-> 0]
          ELSE [db |-> UpdateUserPoints(
                          [d EXCEPT !.code_usage = Append(@, <<code, u>>),
                                    !.codes[code].used_count = @ + 1],
                          u, code_info.points),
                ret |-> "Redeemed", points |-> code_info.points]

\* Mutant: the user's earlier redemption is not looked for, and nothing
\* keeps a second row for the pair out of code_usage.
RedeemCode_IgnoresUsage(d, u, code) ==
    IF code \notin DOMAIN d.codes \/ ~d.codes[code].active
    THEN [db |-> d, ret |-> "None", points |-> 0]
    ELSE
      LET code_info == d.codes[code]
      IN  IF code_info.used_count >= code_info.usage_limit
          THEN [db |-> d, ret |-> "None", points |-> 0]
          ELSE [db |-> UpdateUserPoints(
                          [d EXCEPT !.code_usage = Append(@, <<code, u>>),
                                    !.codes[code].used_count = @ + 1],
                          u, code_info.points),
                ret |-> "Redeemed", points |-> code_info.points]

\* redeem_code: None for a code that is unknown or at its limit, -1
\* ("AlreadyUsed") for a user with a usage row, else the usage row is
\* inserted, used_count incremented and the points credited, and the points
\* are returned.  The limit is looked at before the user's usage row.
RedeemCode(d, u, code) ==
    IF code \notin DOMAIN d.codes \/ ~d.codes[code].active
    THEN [db |-> d, ret |-> "None", points |-> 0]
    ELSE
      LET code_info == d.codes[code]
      IN  IF code_info.used_count >= code_info.usage_limit
          THEN [db |-> d, ret |-> "None", points |-> 0]
          ELSE IF HasUsed(d, u, code)
          THEN [db |-> d, ret |-> "AlreadyUsed", points |-> 0]
          ELSE [db |-> UpdateUserPoints(
                          [d EXCEPT !.code_usage = Append(@, <<code, u>>),
                                    !.codes[code].used_count = @ + 1],
                          u, code_info.points),
                ret |-> "Redeemed", points |-> code_info.points]

\* create_order: debit, INSERT INTO orders, add_channel as 'normal' with
\* target = members_count.  Returns the new order's id.
CreateOrder(d, u, c, members_count, points_cost) ==
    LET d1 == UpdateUserPoints(d, u, -points_cost)
        d2 == [d1 EXCEPT !.orders = Append(@,
                  [user_id |-> u, channel_username |-> c,
                   members_count |-> members_count, points_cost |-> points_cost,
                   status |-> "active", completed_at |-> FALSE])]
        order_id == Len(d2.orders)
    IN  [db |-> AddChannel(d2, c, "normal", members_count, order_id),
         ret |-> order_id]

\* create_order when a statement raises.  at = "insert": the INSERT INTO
\* orders raises after the debit; the except branch returns 0 without a
\* rollback, and the debit stays in the transaction of the one connection
\* every method shares and commits.  at = "add_channel": add_channel raises
\* at its first statement, catches it and returns False, which create_order
\* does not look at: it commits the debit and the order and returns the id.
CreateOrderFails(d, u, c, members_count, points_cost, at) ==
    LET d1 == UpdateUserPoints(d, u, -points_cost)
        d2 == [d1 EXCEPT !.orders = Append(@,
                  [user_id |-> u, channel_username |-> c,
                   members_count |-> members_count, points_cost |-> points_cost,
                   status |-> "active", completed_at |-> FALSE])]
    IN  IF at = "insert"
        THEN [db |-> d1, ret |-> 0]
        ELSE [db |-> d2, ret |-> Len(d2.orders)]

\* context.user_data of a user the bot has asked nothing: no
\* awaiting_verification, verification_code, verification_attempts,
\* referred_by or verified key.
NoVerification ==
    [awaiting |-> FALSE, code |-> 0, attempts |-> 0, verified |-> FALSE,
     referred_by |-> NoUser]

(* ------------------------------------------------------------------ *)
(* State                                                               *)
(* ------------------------------------------------------------------ *)

VARIABLES
    db,        \* the SQLite database: one field per table
    tasks,     \* the asyncio tasks: where each stands and its local variables
    member,    \* the chat platform: the (user, channel) pairs that are members
    purchase,  \* context.user_data['purchase_data'] per user: members_count or 0
    verification, \* context.user_data per user: the keys of the new-user check
    used       \* how much of each bound of the model the run has used

vars == <<db, tasks, member, purchase, verification, used>>

\* The update handlers the dispatcher runs, and the periodic_channel_check task.
Handlers == {"h1", "h2", "h3"}
Scheduler == "sched"
Tasks == Handlers \cup {Scheduler}

\* A task that is not running.  result and completed keep what its last run
\* returned: the outcome of a join claim, and the (channel, order owner) pairs
\* for which update_channel_members returned completed = True.  told keeps
\* the users the run tried to send a completion message to, text the text
\* of the message a run of handle_message is answering.
IdleTask(result, completed) ==
    [ pc |-> "idle", got |-> FALSE, res |-> FALSE, kind |-> "none",
      ty |-> "all", user |-> NoUser, chan |-> NoChan, v |-> NoUser,
      chans |-> <<>>, todo |-> {}, ctodo |-> {}, n |-> 0,
      result |-> result, completed |-> completed, told |-> {},
      text |-> "" ]

\* The end of a join claim and of a tick, `if completed:` and
\* `if completed_channels:`: with a completion to announce the task awaits
\* send_message(chat_id=ADMIN_ID, ...) inside a try, else it is over.
Finished(kind, result, completed) ==
    IF completed = {} THEN IdleTask(result, completed)
    ELSE [IdleTask(result, completed) EXCEPT !.pc = "notify", !.kind = kind]

\* A task suspended in `await check_user_membership(bot, v, chan)` (or, for
\* pc = "confirm", in `await get_channel_member_count`).
Awaiting(t, pc) == tasks[t].pc = pc /\ ~tasks[t].got
Ready(t, pc) == tasks[t].pc = pc /\ tasks[t].got

\* The rows of a SELECT on channels come in rowid order.
RECURSIVE SeqById(_, _)
SeqById(d, S) ==
    IF S = {} THEN <<>>
    ELSE LET c == CHOOSE x \in S : \A y \in S : d.channels[x].id <= d.channels[y].id
         IN  <<c>> \o SeqById(d, S \ {c})

\* get_active_channels(channel_type) with the type of the list: "all" is no type.
ListedChannels(d, ty) ==
    IF ty = "all" THEN GetActiveChannels(d) ELSE GetActiveChannelsOfType(d, ty)

(* ------------------------------------------------------------------ *)
(* The shared loops of the handlers                                    *)
(* ------------------------------------------------------------------ *)

\* The loop `for channel in all_channels: await _check_channel_leavers(...);
\* update_channel_members(...)` of periodic_channel_check and of the refresh
\* handlers, run from the channels `chans` still to do until it has to wait
\* for the platform.  A channel with no subscriber is swept without a
\* platform call, so its recount follows in the same step.
RECURSIVE SweepLoop(_, _, _)
SweepLoop(d, chans, acc) ==
    IF chans = <<>>
    THEN [db |-> d, stop |-> "end", chan |-> NoChan, chans |-> <<>>,
          todo |-> {}, completed |-> acc]
    ELSE
      LET c == Head(chans)
          joined_users == GetChannelSubscribers(d, c)
      IN  IF joined_users # {}
          THEN [db |-> d, stop |-> "await", chan |-> c, chans |-> Tail(chans),
                todo |-> joined_users, completed |-> acc]
          ELSE LET r == UpdateChannelMembers(d, c)
               IN  SweepLoop(r.db, Tail(chans),
                       IF r.completed THEN acc \cup {<<c, r.owner>>} ELSE acc)

\* The task after it asked the platform about one of the subscriptions S of
\* its user, or idle when there is none left (phase is "verify" or "filter").
PickChannel(tk, phase, S) ==
    IF S = {} THEN {IdleTask(tk.result, tk.completed)}
    ELSE {[tk EXCEPT !.pc = phase, !.got = FALSE, !.res = FALSE, !.chan = c,
                     !.v = tk.user, !.ctodo = S \ {c}, !.chans = <<>>,
                     !.todo = {}] : c \in S}

\* The list filter pass of _handle_channels, _handle_vip_channels and the
\* refresh handlers: of the listed channels, those in the snapshot of the
\* user's subscriptions are checked with the platform.
FilterNext(tk, d) ==
    PickChannel(tk, "filter", ListedChannels(d, tk.ty) \cap GetUserSubscriptions(d, tk.user))

\* The task after SweepLoop stopped: waiting for the platform's answer about
\* one subscriber of loop.chan, or past the loop.  A refresh handler goes on
\* to its list whatever update_channel_members returned; the periodic task
\* announces the completions.
SweepNext(tk, loop) ==
    IF loop.stop = "await"
    THEN {[tk EXCEPT !.pc = "sweep", !.got = FALSE, !.res = FALSE,
                     !.chan = loop.chan, !.chans = loop.chans, !.v = v,
                     !.todo = loop.todo \ {v}, !.completed = loop.completed]
            : v \in loop.todo}
    ELSE IF tk.kind = "refresh"
    THEN FilterNext([tk EXCEPT !.completed = loop.completed], loop.db)
    ELSE {Finished(tk.kind, tk.result, loop.completed)}

NewTask(kind, ty, u) ==
    [IdleTask("none", {}) EXCEPT !.kind = kind, !.ty = ty, !.user = u]

Dispatch == used.updates < MaxUpdates
Dispatched == [used EXCEPT !.updates = @ + 1]

(* ------------------------------------------------------------------ *)
(* The chat platform                                                   *)
(* ------------------------------------------------------------------ *)

\* A user joins or leaves a channel on the platform.
Move(u, c) ==
    /\ used.moves < MaxMoves
    /\ member' = IF <<u, c>> \in member THEN member \ {<<u, c>>}
                                         ELSE member \cup {<<u, c>>}
    /\ used' = [used EXCEPT !.moves = @ + 1]
    /\ UNCHANGED <<db, tasks, purchase, verification>>

\* check_user_membership: the platform's answer arrives: the membership as it
\* is now.
OracleAnswers(t) ==
    /\ tasks[t].pc \in {"join", "sweep", "verify", "filter"}
    /\ ~tasks[t].got
    /\ tasks' = [tasks EXCEPT ![t].got = TRUE,
                              ![t].res = (<<tasks[t].v, tasks[t].chan>> \in member)]
    /\ UNCHANGED <<db, member, purchase, used, verification>>

\* Mutant: a platform error is answered True.
OracleFails_Open(t) ==
    /\ tasks[t].pc \in {"join", "sweep", "verify", "filter"}
    /\ ~tasks[t].got
    /\ <<tasks[t].v, tasks[t].chan>> \in member
    /\ used.errors < MaxErrors
    /\ tasks' = [tasks EXCEPT ![t].got = TRUE, ![t].res = TRUE]
    /\ used' = [used EXCEPT !.errors = @ + 1]
    /\ UNCHANGED <<db, member, purchase, verification>>

\* check_user_membership: get_chat_member raises TelegramError: False.
OracleFails(t) ==
    /\ tasks[t].pc \in {"join", "sweep", "verify", "filter"}
    /\ ~tasks[t].got
    /\ <<tasks[t].v, tasks[t].chan>> \in member
    /\ used.errors < MaxErrors
    /\ tasks' = [tasks EXCEPT ![t].got = TRUE, ![t].res = FALSE]
    /\ used' = [used EXCEPT !.errors = @ + 1]
    /\ UNCHANGED <<db, member, purchase, verification>>

(* ------------------------------------------------------------------ *)
(* Join claim (bot_handlers.py, _handle_join_channel)                  *)
(* ------------------------------------------------------------------ *)

\* handle_callback and the first lines of _handle_join_channel: the user is
\* inserted when missing; a claim for a channel already in the user's
\* subscriptions ends at once, any other asks the platform.
StartJoin(t, u, c) ==
    /\ tasks[t].pc = "idle"
    /\ Dispatch
    /\ db' = AddUser(db, u)
    /\ tasks' = [tasks EXCEPT ![t] =
            IF c \in GetUserSubscriptions(db', u)
            THEN IdleTask("AlreadyJoined", {})
            ELSE [NewTask("join", "all", u) EXCEPT !.pc = "join", !.chan = c, !.v = u]]
    /\ used' = Dispatched
    /\ UNCHANGED <<member, purchase, verification>>

\* Mutant: the channel is looked up among all channels, active or not.
JoinChannel_CreditsInactive(d, u, c, is_member) ==
    IF ~is_member
    THEN [db |-> d, result |-> "NotMember", completed |-> {}]
    ELSE IF c \notin DOMAIN d.channels
    THEN [db |-> d, result |-> "ChannelUnavailable", completed |-> {}]
    ELSE
      LET points == IF d.channels[c].type = "vip"
                    THEN VIP_CHANNEL_POINTS ELSE NORMAL_CHANNEL_POINTS
          j == UserJoinedChannel(d, u, c, points)
      IN  IF j.ret
          THEN LET r == UpdateChannelMembers(j.db, c)
               IN  [db |-> r.db, result |-> "Credited",
                    completed |-> IF r.completed THEN {<<c, r.owner>>} ELSE {}]
          ELSE [db |-> j.db, result |-> "Error", completed |-> {}]

\* Mutant: a credited join is not followed by update_channel_members.
JoinChannel_NoRecompute(d, u, c, is_member) ==
    IF ~is_member
    THEN [db |-> d, result |-> "NotMember", completed |-> {}]
    ELSE IF c \notin GetActiveChannels(d)
    THEN [db |-> d, result |-> "ChannelUnavailable", completed |-> {}]
    ELSE
      LET points == IF d.channels[c].type = "vip"
                    THEN VIP_CHANNEL_POINTS ELSE NORMAL_CHANNEL_POINTS
          j == UserJoinedChannel(d, u, c, points)
      IN  [db |-> j.db, result |-> IF j.ret THEN "Credited" ELSE "Error",
           completed |-> {}]

\* _handle_join_channel from the platform's answer on: the outcome, the
\* database and the completions update_channel_members reported.
JoinChannel(d, u, c, is_member) ==
    IF ~is_member
    THEN [db |-> d, result |-> "NotMember", completed |-> {}]
    ELSE IF c \notin GetActiveChannels(d)
    THEN [db |-> d, result |-> "ChannelUnavailable", completed |-> {}]
    ELSE
      LET points == IF d.channels[c].type = "vip"
                    THEN VIP_CHANNEL_POINTS ELSE NORMAL_CHANNEL_POINTS
          j == UserJoinedChannel(d, u, c, points)
      IN  IF j.ret
          THEN LET r == UpdateChannelMembers(j.db, c)
               IN  [db |-> r.db, result |-> "Credited",
                    completed |-> IF r.completed THEN {<<c, r.owner>>} ELSE {}]
          ELSE [db |-> j.db, result |-> "Error", completed |-> {}]

\* Mutant: the claim goes on without looking the channel up among the
\* active ones.
ResumeJoin_NoActiveLookup(t) ==
    /\ Ready(t, "join")
    /\ LET j == JoinChannel_CreditsInactive(db, tasks[t].user, tasks[t].chan, tasks[t].res)
       IN  /\ db' = j.db
           /\ tasks' = [tasks EXCEPT ![t] = Finished("join", j.result, j.completed)]
    /\ UNCHANGED <<member, purchase, used, verification>>

ResumeJoin(t) ==
    /\ Ready(t, "join")
    /\ LET j == JoinChannel(db, tasks[t].user, tasks[t].chan, tasks[t].res)
       IN  /\ db' = j.db
           /\ tasks' = [tasks EXCEPT ![t] = Finished("join", j.result, j.completed)]
    /\ UNCHANGED <<member, purchase, used, verification>>

(* ------------------------------------------------------------------ *)
(* Completion messages (_handle_join_channel, periodic_channel_check)  *)
(* ------------------------------------------------------------------ *)

\* The owners of the completed orders that are sent a message of their own.
OwnersToTell(completed) ==
    {k[2] : k \in {x \in completed : x[2] \notin {NoUser, ADMIN_ID}}}

\* The message to the admin went out: the sends to the order owners follow
\* inside the same try block, and the run is over.
NotifyDelivered(t) ==
    /\ tasks[t].pc = "notify"
    /\ tasks' = [tasks EXCEPT ![t] =
            [IdleTask(tasks[t].result, tasks[t].completed) EXCEPT
                !.told = {ADMIN_ID} \cup OwnersToTell(tasks[t].completed)]]
    /\ UNCHANGED <<db, member, purchase, used, verification>>

\* send_message to the admin raises: the except branch of the try block
\* logs the error, and the sends to the order owners, which are further
\* down the same try block, are not reached.
NotifyFails(t) ==
    /\ tasks[t].pc = "notify"
    /\ used.errors < MaxErrors
    /\ tasks' = [tasks EXCEPT ![t] =
            [IdleTask(tasks[t].result, tasks[t].completed) EXCEPT
                !.told = {ADMIN_ID}]]
    /\ used' = [used EXCEPT !.errors = @ + 1]
    /\ UNCHANGED <<db, member, purchase, verification>>

(* ------------------------------------------------------------------ *)
(* Channel lists (_handle_channels, _handle_vip_channels)              *)
(* ------------------------------------------------------------------ *)

\* _verify_user_subscriptions starts: a snapshot of the user's subscriptions,
\* each checked with the platform; with none the filter pass follows at once.
StartChannels(t, u, ty) ==
    /\ tasks[t].pc = "idle"
    /\ Dispatch
    /\ db' = AddUser(db, u)
    /\ LET S == GetUserSubscriptions(db', u)
           tk == NewTask("channels", ty, u)
       IN  \E nx \in (IF S = {} THEN FilterNext(tk, db') ELSE PickChannel(tk, "verify", S)) :
               tasks' = [tasks EXCEPT ![t] = nx]
    /\ used' = Dispatched
    /\ UNCHANGED <<member, purchase, verification>>

\* Mutant: the list filter pass works on the subscriptions as they were
\* before the last check of the verify pass was applied.
ResumeVerify_StaleSnapshot(t) ==
    /\ Ready(t, "verify")
    /\ LET tk == tasks[t]
       IN  /\ db' = IF tk.res THEN db
                     ELSE PenalizeChannelLeaver(db, tk.user, tk.chan, LEAVE_PENALTY)
           /\ \E nx \in (IF tk.ctodo # {} THEN PickChannel(tk, "verify", tk.ctodo)
                          ELSE FilterNext(tk, db)) :
                   tasks' = [tasks EXCEPT ![t] = nx]
    /\ UNCHANGED <<member, purchase, used, verification>>

\* _verify_user_subscriptions: an absent user is penalized 5 points; after
\* the last subscription the list filter pass takes its own snapshot.
ResumeVerify(t) ==
    /\ Ready(t, "verify")
    /\ LET tk == tasks[t]
       IN  /\ db' = IF tk.res THEN db
                     ELSE PenalizeChannelLeaver(db, tk.user, tk.chan, LEAVE_PENALTY)
           /\ \E nx \in (IF tk.ctodo # {} THEN PickChannel(tk, "verify", tk.ctodo)
                          ELSE FilterNext(tk, db')) :
                   tasks' = [tasks EXCEPT ![t] = nx]
    /\ UNCHANGED <<member, purchase, used, verification>>

\* The list filter pass: an absent user's subscription is cleaned up with
\* no penalty.
ResumeFilter(t) ==
    /\ Ready(t, "filter")
    /\ LET tk == tasks[t]
       IN  /\ db' = IF tk.res THEN db
                     ELSE PenalizeChannelLeaver(db, tk.user, tk.chan, NO_PENALTY)
           /\ \E nx \in PickChannel(tk, "filter", tk.ctodo) :
                   tasks' = [tasks EXCEPT ![t] = nx]
    /\ UNCHANGED <<member, purchase, used, verification>>

(* ------------------------------------------------------------------ *)
(* Sweeps (_check_channel_leavers) and their callers                   *)
(* ------------------------------------------------------------------ *)

\* _handle_refresh_channels (ty = "all") and _handle_refresh_vip_channels
\* (ty = "vip"): sweep and recount every listed channel, then filter.
StartRefresh(t, u, ty) ==
    /\ tasks[t].pc = "idle"
    /\ Dispatch
    /\ LET d0 == AddUser(db, u)
           loop == SweepLoop(d0, SeqById(d0, ListedChannels(d0, ty)), {})
       IN  /\ db' = loop.db
           /\ \E nx \in SweepNext(NewTask("refresh", ty, u), loop) :
                   tasks' = [tasks EXCEPT ![t] = nx]
    /\ used' = Dispatched
    /\ UNCHANGED <<member, purchase, verification>>

\* periodic_channel_check: asyncio.sleep(40) is over and a tick begins.
Tick ==
    /\ tasks[Scheduler].pc = "idle"
    /\ used.ticks < MaxTicks
    /\ LET loop == SweepLoop(db, SeqById(db, GetActiveChannels(db)), {})
       IN  /\ db' = loop.db
           /\ \E nx \in SweepNext(NewTask("tick", "all", NoUser), loop) :
                   tasks' = [tasks EXCEPT ![Scheduler] = nx]
    /\ used' = [used EXCEPT !.ticks = @ + 1]
    /\ UNCHANGED <<member, purchase, verification>>

\* Mutant: an absent subscriber is not penalized.
ResumeSweep_NoPenalty(t) ==
    /\ Ready(t, "sweep")
    /\ LET tk == tasks[t]
           d1 == db
       IN  IF tk.todo # {}
           THEN /\ db' = d1
                /\ \E v \in tk.todo :
                     tasks' = [tasks EXCEPT ![t] =
                        [tk EXCEPT !.got = FALSE, !.res = FALSE, !.v = v,
                                   !.todo = tk.todo \ {v}]]
           ELSE LET r == UpdateChannelMembers(d1, tk.chan)
                    acc == IF r.completed
                           THEN tk.completed \cup {<<tk.chan, r.owner>>}
                           ELSE tk.completed
                    loop == SweepLoop(r.db, tk.chans, acc)
                IN  /\ db' = loop.db
                    /\ \E nx \in SweepNext(tk, loop) :
                          tasks' = [tasks EXCEPT ![t] = nx]
    /\ UNCHANGED <<member, purchase, used, verification>>

\* Mutant: an absent subscriber ends the sweep of the channel's other
\* subscribers.
ResumeSweep_AbortsOnAbsent(t) ==
    /\ Ready(t, "sweep")
    /\ LET tk == tasks[t]
           d1 == IF tk.res THEN db
                 ELSE PenalizeChannelLeaver(db, tk.v, tk.chan, LEAVE_PENALTY)
       IN  IF tk.todo # {} /\ tk.res
           THEN /\ db' = d1
                /\ \E v \in tk.todo :
                     tasks' = [tasks EXCEPT ![t] =
                        [tk EXCEPT !.got = FALSE, !.res = FALSE, !.v = v,
                                   !.todo = tk.todo \ {v}]]
           ELSE LET r == UpdateChannelMembers(d1, tk.chan)
                    acc == IF r.completed
                           THEN tk.completed \cup {<<tk.chan, r.owner>>}
                           ELSE tk.completed
                    loop == SweepLoop(r.db, tk.chans, acc)
                IN  /\ db' = loop.db
                    /\ \E nx \in SweepNext(tk, loop) :
                          tasks' = [tasks EXCEPT ![t] = nx]
    /\ UNCHANGED <<member, purchase, used, verification>>

\* Mutant: the channel is recounted before its last absent subscriber is
\* penalized.
ResumeSweep_RecountsFirst(t) ==
    /\ Ready(t, "sweep")
    /\ LET tk == tasks[t]
       IN  IF tk.todo # {}
           THEN /\ db' = IF tk.res THEN db
                         ELSE PenalizeChannelLeaver(db, tk.v, tk.chan, LEAVE_PENALTY)
                /\ \E v \in tk.todo :
                     tasks' = [tasks EXCEPT ![t] =
                        [tk EXCEPT !.got = FALSE, !.res = FALSE, !.v = v,
                                   !.todo = tk.todo \ {v}]]
           ELSE LET r == UpdateChannelMembers(db, tk.chan)
                    d1 == IF tk.res THEN r.db
                          ELSE PenalizeChannelLeaver(r.db, tk.v, tk.chan, LEAVE_PENALTY)
                    acc == IF r.completed
                           THEN tk.completed \cup {<<tk.chan, r.owner>>}
                           ELSE tk.completed
                    loop == SweepLoop(d1, tk.chans, acc)
                IN  /\ db' = loop.db
                    /\ \E nx \in SweepNext(tk, loop) :
                          tasks' = [tasks EXCEPT ![t] = nx]
    /\ UNCHANGED <<member, purchase, used, verification>>

\* _check_channel_leavers from the platform's answer on: an absent
\* subscriber is penalized 5 points; after the last subscriber of the
\* snapshot the caller recounts the channel and goes on to the next one.
ResumeSweep(t) ==
    /\ Ready(t, "sweep")
    /\ LET tk == tasks[t]
           d1 == IF tk.res THEN db
                 ELSE PenalizeChannelLeaver(db, tk.v, tk.chan, LEAVE_PENALTY)
       IN  IF tk.todo # {}
           THEN /\ db' = d1
                /\ \E v \in tk.todo :
                     tasks' = [tasks EXCEPT ![t] =
                        [tk EXCEPT !.got = FALSE, !.res = FALSE, !.v = v,
                                   !.todo = tk.todo \ {v}]]
           ELSE LET r == UpdateChannelMembers(d1, tk.chan)
                    acc == IF r.completed
                           THEN tk.completed \cup {<<tk.chan, r.owner>>}
                           ELSE tk.completed
                    loop == SweepLoop(r.db, tk.chans, acc)
                IN  /\ db' = loop.db
                    /\ \E nx \in SweepNext(tk, loop) :
                          tasks' = [tasks EXCEPT ![t] = nx]
    /\ UNCHANGED <<member, purchase, used, verification>>

\* _check_channel_leavers when penalize_channel_leaver meets a database
\* error at its first statement: it logs the error and returns, nothing is
\* written, and the loop goes on as after any other subscriber.
SweepLedgerFails(t) ==
    /\ Ready(t, "sweep")
    /\ ~tasks[t].res
    /\ <<tasks[t].v, tasks[t].chan>> \in db.subs
    /\ used.errors < MaxErrors
    /\ LET tk == tasks[t]
       IN  IF tk.todo # {}
           THEN /\ db' = db
                /\ \E v \in tk.todo :
                     tasks' = [tasks EXCEPT ![t] =
                        [tk EXCEPT !.got = FALSE, !.res = FALSE, !.v = v,
                                   !.todo = tk.todo \ {v}]]
           ELSE LET r == UpdateChannelMembers(db, tk.chan)
                    acc == IF r.completed
                           THEN tk.completed \cup {<<tk.chan, r.owner>>}
                           ELSE tk.completed
                    loop == SweepLoop(r.db, tk.chans, acc)
                IN  /\ db' = loop.db
                    /\ \E nx \in SweepNext(tk, loop) :
                          tasks' = [tasks EXCEPT ![t] = nx]
    /\ used' = [used EXCEPT !.errors = @ + 1]
    /\ UNCHANGED <<member, purchase, verification>>

(* ------------------------------------------------------------------ *)
(* Admin commands (admin_handlers.py)                                  *)
(* ------------------------------------------------------------------ *)

\* add_channel and handle_admin_text('add_channel'): price = 0, then
\* create_order(admin, channel, price, target), whose parameters are
\* (user_id, channel_username, members_count, points_cost), then add_channel
\* with the type and target the admin gave.
AdminAddChannel(d, admin, c, ty, target) ==
    LET price == 0
        o == CreateOrder(d, admin, c, price, target)
    IN  IF o.ret # 0 THEN AddChannel(o.db, c, ty, target, o.ret) ELSE o.db

AddChannelCommand(t, c, ty, target) ==
    /\ tasks[t].pc = "idle"
    /\ Dispatch
    /\ db' = AdminAddChannel(db, ADMIN_ID, c, ty, target)
    /\ tasks' = [tasks EXCEPT ![t] = IdleTask("none", {})]
    /\ used' = Dispatched
    /\ UNCHANGED <<member, purchase, verification>>

\* remove_channel and handle_admin_text('remove_channel')
RemoveChannelCommand(t, c) ==
    /\ tasks[t].pc = "idle"
    /\ Dispatch
    /\ c \in DOMAIN db.channels
    /\ db' = RemoveChannel(db, c)
    /\ tasks' = [tasks EXCEPT ![t] = IdleTask("none", {})]
    /\ used' = Dispatched
    /\ UNCHANGED <<member, purchase, verification>>

(* ------------------------------------------------------------------ *)
(* Order purchase (_handle_buy, _handle_confirmation)                  *)
(* ------------------------------------------------------------------ *)

\* The packages of SHOP_PRICES a user of the model picks.
Packages == {10}

\* _handle_buy: the purchase is kept in user_data when the balance covers it.
HandleBuy(t, u, members_count) ==
    /\ tasks[t].pc = "idle"
    /\ Dispatch
    /\ db' = AddUser(db, u)
    /\ purchase' = IF db'.users[u].points < SHOP_PRICES[members_count]
                   THEN purchase
                   ELSE [purchase EXCEPT ![u] = members_count]
    /\ tasks' = [tasks EXCEPT ![t] = IdleTask("none", {})]
    /\ used' = Dispatched
    /\ UNCHANGED <<member, verification>>

\* _handle_confirmation for confirm_buy_<channel>: with a pending purchase it
\* awaits get_channel_member_count.
StartConfirm(t, u, c) ==
    /\ tasks[t].pc = "idle"
    /\ Dispatch
    /\ purchase[u] # 0
    /\ db' = AddUser(db, u)
    /\ tasks' = [tasks EXCEPT ![t] =
            [NewTask("confirm", "all", u) EXCEPT !.pc = "confirm", !.chan = c,
                                                 !.n = purchase[u]]]
    /\ used' = Dispatched
    /\ UNCHANGED <<member, purchase, verification>>

\* _handle_confirmation after the await: create_order, then the pending
\* purchase is dropped.
ResumeConfirm(t) ==
    /\ tasks[t].pc = "confirm"
    /\ LET tk == tasks[t]
           o == CreateOrder(db, tk.user, tk.chan, tk.n, SHOP_PRICES[tk.n])
       IN  /\ db' = o.db
           /\ purchase' = [purchase EXCEPT ![tk.user] = 0]
    /\ tasks' = [tasks EXCEPT ![t] = IdleTask("none", {})]
    /\ UNCHANGED <<member, used, verification>>

\* _handle_confirmation after the await when create_order meets a database
\* error: the pending purchase is dropped only `if order_id:`.
ConfirmFails(t) ==
    /\ tasks[t].pc = "confirm"
    /\ used.errors < MaxErrors
    /\ \E at \in {"insert", "add_channel"} :
          LET tk == tasks[t]
              o == CreateOrderFails(db, tk.user, tk.chan, tk.n, SHOP_PRICES[tk.n], at)
          IN  /\ db' = o.db
              /\ purchase' = IF o.ret # 0 THEN [purchase EXCEPT ![tk.user] = 0]
                              ELSE purchase
    /\ tasks' = [tasks EXCEPT ![t] = IdleTask("none", {})]
    /\ used' = [used EXCEPT !.errors = @ + 1]
    /\ UNCHANGED <<member, verification>>

(* ------------------------------------------------------------------ *)
(* Specification                                                       *)
(* ------------------------------------------------------------------ *)

Pairs == Users \X Channels

\* The database of a bot whose users have registered: no channel, order or
\* subscription yet, and the balances pts.
InitDB(pts) ==
    [EmptyDB EXCEPT !.users = [u \in Users |->
        [NewUserRow(NoUser) EXCEPT !.points = pts[u]]]]

\* The balances a run starts from: nothing, or user u1 holding RichPoints.
InitPoints == {[u \in Users |-> IF u = "u1" THEN p ELSE 0] : p \in {0, RichPoints}}

Init ==
    /\ \E pts \in InitPoints : db = InitDB(pts)
    /\ tasks = [t \in Tasks |-> IdleTask("none", {})]
    /\ member = {}
    /\ purchase = [u \in Users |-> 0]
    /\ verification = [u \in Users |-> NoVerification]
    /\ used = [updates |-> 0, ticks |-> 0, moves |-> 0, errors |-> 0]

\* An update handed to handler t.
Update(t) ==
    \/ \E u \in Users, c \in Channels : StartJoin(t, u, c)
    \/ \E u \in Users, ty \in ChannelTypes : StartChannels(t, u, ty)
    \/ \E u \in Users, ty \in {"all", "vip"} : StartRefresh(t, u, ty)
    \/ \E c \in Channels, ty \in ChannelTypes, target \in 1..MaxTarget :
          AddChannelCommand(t, c, ty, target)
    \/ \E c \in Channels : RemoveChannelCommand(t, c)
    \/ \E u \in Users, n \in Packages : HandleBuy(t, u, n)
    \/ \E u \in Users, c \in Channels : StartConfirm(t, u, c)

\* A task goes on after its await.
Resume(t) ==
    \/ ResumeJoin(t)
    \/ ResumeVerify(t)
    \/ ResumeFilter(t)
    \/ ResumeSweep(t)
    \/ ResumeConfirm(t)
    \/ ConfirmFails(t)
    \/ SweepLedgerFails(t)
    \/ NotifyDelivered(t)
    \/ NotifyFails(t)

Platform ==
    \/ \E u \in Users, c \in Channels : Move(u, c)
    \/ \E t \in Tasks : OracleAnswers(t)
    \/ \E t \in Tasks : OracleFails(t)

\* The Application is built without concurrent_updates: the dispatcher runs
\* one update handler at a time, beside the periodic task.
Next ==
    \/ Update("h1")
    \/ Tick
    \/ \E t \in Tasks : Resume(t)
    \/ Platform

Spec == Init /\ [][Next]_vars

(* ------------------------------------------------------------------ *)
(* Concurrent join claims                                              *)
(* ------------------------------------------------------------------ *)

\* What user u has paid for orders: create_order debits points_cost.
RECURSIVE PaidUpTo(_, _, _)
PaidUpTo(d, u, i) ==
    IF i = 0 THEN 0
    ELSE PaidUpTo(d, u, i - 1)
         + (IF d.orders[i].user_id = u THEN d.orders[i].points_cost ELSE 0)

Paid(d, u) == PaidUpTo(d, u, Len(d.orders))

\* The points a credited join of channel c is worth.
Award(d, c) ==
    IF c \in DOMAIN d.channels /\ d.channels[c].type = "vip"
    THEN VIP_CHANNEL_POINTS ELSE NORMAL_CHANNEL_POINTS

NoBalance == [u \in Users |-> 0]

\* One channel the admin has just added, and one user who is a member of it
\* on the platform and stays one.
JoinInit ==
    /\ \E c \in Channels, ty \in ChannelTypes, target \in 1..MaxTarget, u \in Users :
          /\ db = AdminAddChannel(InitDB(NoBalance), ADMIN_ID, c, ty, target)
          /\ member = {<<u, c>>}
    /\ tasks = [t \in Tasks |-> IdleTask("none", {})]
    /\ purchase = [u \in Users |-> 0]
    /\ verification = [u \in Users |-> NoVerification]
    /\ used = [updates |-> 0, ticks |-> 0, moves |-> 0, errors |-> 0]

\* Join claims for that pair, handled concurrently: the handlers interleave
\* at the platform call.
JoinNext ==
    \/ \E t \in Handlers, p \in member : StartJoin(t, p[1], p[2])
    \/ \E t \in Handlers : OracleAnswers(t)
    \/ \E t \in Handlers : ResumeJoin(t)
    \/ \E t \in Handlers : NotifyDelivered(t)

SpecJoin == JoinInit /\ [][JoinNext]_vars

\* C1: no double credit.  Whatever the number and interleaving of join claims
\* for a pair whose user is a member of an active channel, the user's balance
\* carries the award exactly once and channels_joined is 1 exactly when the
\* Subscription row exists; the row exists as soon as any claim has ended, at
\* most one claim ends credited, and every other claim ends with no award
\* (AlreadyJoined, the ignored insert, or the channel gone inactive because
\* the credited claim completed it).
C1_NoDoubleCredit ==
    \A p \in member :
      LET u == p[1]
          c == p[2]
          credited == p \in db.subs
      IN  /\ db.users[u].points = (IF credited THEN Award(db, c) ELSE 0) - Paid(db, u)
          /\ db.users[u].channels_joined = (IF credited THEN 1 ELSE 0)
          /\ Cardinality({t \in Handlers : tasks[t].result = "Credited"}) <= 1
          /\ \A t \in Handlers :
                tasks[t].result # "none" =>
                  /\ credited
                  /\ tasks[t].result \in {"Credited", "AlreadyJoined", "Error",
                                           "ChannelUnavailable"}

\* Two claims raced past the subscription check: one was credited, the other
\* one's insert was ignored.
C1_Witness ==
    \E t1, t2 \in Handlers :
        /\ tasks[t1].result = "Credited"
        /\ tasks[t2].result = "Error"
        /\ \A p \in member : p \in db.subs

(* ------------------------------------------------------------------ *)
(* Leave detection from several paths                                  *)
(* ------------------------------------------------------------------ *)

\* The join claims js, a sequence of (user, channel), each made by a member
\* and handled to its end.
RECURSIVE JoinAll(_, _)
JoinAll(d, js) ==
    IF js = <<>> THEN d
    ELSE JoinAll(JoinChannel(d, Head(js)[1], Head(js)[2], TRUE).db, Tail(js))

\* The points the credited joins of the channels S were worth.
RECURSIVE SumAward(_, _)
SumAward(d, S) ==
    IF S = {} THEN 0
    ELSE LET c == CHOOSE x \in S : TRUE
         IN  Award(d, c) + SumAward(d, S \ {c})

Leavers == {"u1", "u2"}
LeaveHandlers == {"h1", "h2"}

\* Both channels added by the admin, one or two join claims credited, and
\* every user gone from the channels on the platform.
LeaveInit ==
    /\ \E ty \in ChannelTypes, target \in {MaxTarget}, p1 \in {<<"u1", "a">>},
          p2 \in {<<"u1", "b">>, <<"u2", "a">>} :
          db = JoinAll(
                 AdminAddChannel(
                   AdminAddChannel(InitDB(NoBalance), ADMIN_ID, "a", ty, target),
                   ADMIN_ID, "b", "normal", target),
                 <<p1, p2>>)
    /\ member = {}
    /\ tasks = [t \in Tasks |-> IdleTask("none", {})]
    /\ purchase = [u \in Users |-> 0]
    /\ verification = [u \in Users |-> NoVerification]
    /\ used = [updates |-> 0, ticks |-> 0, moves |-> 0, errors |-> 0]

\* The three paths that detect a leave, in any interleaving: the periodic
\* sweep, the channel lists (verify pass, then filter pass) and the manual
\* refresh (sweep, then filter pass).
LeaveNext ==
    \/ \E t \in LeaveHandlers, u \in Leavers, ty \in ChannelTypes :
          StartChannels(t, u, ty)
    \/ \E t \in LeaveHandlers, u \in Leavers, ty \in {"all", "vip"} :
          StartRefresh(t, u, ty)
    \/ Tick
    \/ \E t \in Tasks : ResumeVerify(t) \/ ResumeFilter(t) \/ ResumeSweep(t)
    \/ \E t \in Tasks : OracleAnswers(t)
    \/ \E u \in Leavers : Move(u, "a")

SpecLeave == LeaveInit /\ [][LeaveNext]_vars

\* The channels user u holds a subscription to, and those u is recorded as
\* having left.
SubscribedTo(u) == {c \in Channels : <<u, c>> \in db.subs}
LeftFrom(u) == {c \in Channels : <<u, c>> \in DOMAIN db.leavers}
PenalizedFor(u) == {c \in LeftFrom(u) : db.leavers[<<u, c>>].penalty_applied}

\* C2: each Subscription row is left at most once.  However the sweep, the
\* per-user verify pass and the list filter pass interleave on the same absent
\* user, every credited join is either still a Subscription or one leaver
\* fact, the balance is the awards minus LEAVE_PENALTY once per penalized
\* leaver fact, and channels_joined dropped by one per removed Subscription;
\* a penalize call that finds no Subscription changes none of them.
C2_LeaveProcessedOnce ==
    \A u \in Users :
        /\ SubscribedTo(u) \cap LeftFrom(u) = {}
        /\ db.users[u].channels_joined = Cardinality(SubscribedTo(u))
        /\ db.users[u].points =
              SumAward(db, SubscribedTo(u) \cup LeftFrom(u)) - Paid(db, u)
              - LEAVE_PENALTY * Cardinality(PenalizedFor(u))
        /\ \A c \in Channels, p \in {NO_PENALTY, LEAVE_PENALTY} :
              <<u, c>> \notin db.subs => PenalizeChannelLeaver(db, u, c, p) = db

\* A second path holds the answer "absent" for a subscription that another
\* path has already removed and penalized.
C2_Witness ==
    \E t \in Tasks :
        /\ tasks[t].pc \in {"sweep", "verify", "filter"}
        /\ tasks[t].got /\ ~tasks[t].res
        /\ tasks[t].chan \in PenalizedFor(tasks[t].v)
        /\ db.users[tasks[t].v].points < 0

(* ------------------------------------------------------------------ *)
(* Recount and completion                                              *)
(* ------------------------------------------------------------------ *)

\* The owner of the order behind channel c, NoUser when it has none.
OwnerOf(d, c) ==
    LET order_id == d.channels[c].order_id
    IN  IF order_id # 0 /\ order_id \in DOMAIN d.orders
        THEN d.orders[order_id].user_id ELSE NoUser

\* The users holding a Subscription to c, the set `out` left aside.
SubscribersBut(d, c, out) == {u \in Users : <<u, c>> \in d.subs /\ u \notin out}

\* Channel c is closed: inactive, its order completed with a timestamp.
Completed(d, c) ==
    /\ c \in DOMAIN d.channels
    /\ ~d.channels[c].active
    /\ d.channels[c].order_id \in DOMAIN d.orders
    /\ d.orders[d.channels[c].order_id].status = "completed"
    /\ d.orders[d.channels[c].order_id].completed_at

\* This step is task t going on from a credited join claim.
CreditedJoinStep(t) ==
    /\ Ready(t, "join")
    /\ tasks'[t].pc \in {"idle", "notify"}
    /\ tasks'[t].result = "Credited"

\* This step is task t recounting the channel it has finished sweeping.
SweepRecountStep(t) ==
    /\ Ready(t, "sweep")
    /\ tasks[t].todo = {}
    /\ tasks'[t] # tasks[t]

\* C3: in every state the bot reaches, update_channel_members called twice
\* in a row on a channel, nothing else in between, leaves after the second
\* call exactly the gained, active and order status the first call left, and
\* the second call does not report a completion: a channel the first call (or
\* an earlier one) completed is not completed again.
C3_IdempotentCompletion ==
    \A c \in Channels :
        LET r1 == UpdateChannelMembers(db, c)
            r2 == UpdateChannelMembers(r1.db, c)
        IN  /\ r2.db = r1.db
            /\ ~r2.completed
            /\ Completed(db, c) => r1.db = db /\ ~r1.completed

\* A join claim's recount has completed a channel whose count is at its
\* target: the state a second recount finds.
C3_Witness ==
    \E t \in Handlers, c \in Channels :
        /\ <<c, ADMIN_ID>> \in tasks[t].completed
        /\ Completed(db, c)
        /\ db.channels[c].gained >= db.channels[c].target

\* C4: a task adds a channel to the completions it was told of only in a
\* step that takes the channel from active to inactive and its order from
\* active to completed; so between two activations of a channel at most one
\* update_channel_members call, from whichever of the join handler, the
\* refresh handlers and the scheduler, returns completed = True.
C4_CompletionReportedOnce ==
    [][\A t \in Tasks : \A k \in tasks'[t].completed \ tasks[t].completed :
          LET c == k[1]
          IN  /\ c \in DOMAIN db.channels /\ db.channels[c].active
              /\ db.orders[db.channels[c].order_id].status = "active"
              /\ Completed(db', c)
              /\ \A t2 \in Tasks \ {t} :
                    tasks'[t2].completed \ tasks[t2].completed = {}]_vars

\* The scheduler is about to recount a channel that a join claim completed
\* while the sweep was waiting for the platform.
C4_Witness ==
    \E t \in Handlers, c \in Channels :
        /\ <<c, ADMIN_ID>> \in tasks[t].completed
        /\ Completed(db, c)
        /\ Ready(Scheduler, "sweep")
        /\ tasks[Scheduler].chan = c
        /\ tasks[Scheduler].todo = {}

\* C5: a recount of an active channel with an order, made by a credited
\* join or at the end of a sweep of the channel, writes as gained the number
\* of Subscriptions held by users other than the order's owner; the channel
\* completes when that number has reached the target and stays active when
\* it has not, whatever the owner's own Subscription.
C5_SelfExclusion ==
    [][\A t \in Tasks :
          LET c == tasks[t].chan
          IN  (/\ CreditedJoinStep(t) \/ SweepRecountStep(t)
               /\ c \in DOMAIN db.channels
               /\ db.channels[c].active
               /\ OwnerOf(db, c) # NoUser)
              => LET n == Cardinality(SubscribersBut(db', c, {OwnerOf(db, c)}))
                 IN  /\ db'.channels[c].gained = n
                     /\ n >= db.channels[c].target => Completed(db', c)
                     /\ n < db.channels[c].target => db'.channels[c].active]_vars

\* A channel with target T completed at gained = T while its owner holds a
\* Subscription too.
C5_Witness ==
    \E c \in Channels :
        /\ Completed(db, c)
        /\ <<OwnerOf(db, c), c>> \in db.subs
        /\ db.channels[c].gained = db.channels[c].target
        /\ Cardinality(SubscribersBut(db, c, {})) = db.channels[c].target + 1

\* C6: whatever an active channel's order, a recount writes as gained the
\* number of Subscriptions held by users other than the order's owner and
\* the configured admin.
C6_OwnerAndAdminExcluded ==
    \A c \in DOMAIN db.channels :
        db.channels[c].active =>
            UpdateChannelMembers(db, c).db.channels[c].gained
                = Cardinality(SubscribersBut(db, c, {OwnerOf(db, c), ADMIN_ID}))

\* C7: a credited join of an active channel with target T recounts it in
\* the same step: when the non-owner Subscriptions are fewer than T the
\* channel stays active with gained equal to their number; when they have
\* reached T gained is written, the channel is deactivated, the order is
\* completed with its timestamp and the completion is returned to the handler.
C7_CompletionOnJoin ==
    [][\A t \in Handlers :
          CreditedJoinStep(t) =>
            LET c == tasks[t].chan
                u == tasks[t].user
                T == db.channels[c].target
                n == Cardinality(SubscribersBut(db', c, {OwnerOf(db, c)}))
            IN  /\ db.channels[c].active
                /\ <<u, c>> \notin db.subs /\ <<u, c>> \in db'.subs
                /\ db'.channels[c].gained = n
                /\ n < T => /\ db'.channels[c].active
                            /\ db'.orders = db.orders
                            /\ tasks'[t].completed = {}
                /\ n >= T => /\ n = T
                             /\ Completed(db', c)
                             /\ db.orders[db.channels[c].order_id].status = "active"
                             /\ tasks'[t].completed = {<<c, OwnerOf(db, c)>>}]_vars

\* A channel with target 2 that two credited joins completed.
C7_Witness ==
    \E t \in Handlers, c \in Channels :
        /\ Completed(db, c)
        /\ tasks[t].result = "Credited"
        /\ tasks[t].completed = {<<c, OwnerOf(db, c)>>}
        /\ db.channels[c].target = MaxTarget
        /\ db.channels[c].gained = MaxTarget

(* ------------------------------------------------------------------ *)
(* Leaves                                                              *)
(* ------------------------------------------------------------------ *)

\* The penalty of the pass task t is in.
PassPenalty(t) == IF tasks[t].pc = "filter" THEN NO_PENALTY ELSE LEAVE_PENALTY

\* This step is task t going on with the answer "absent" about a
\* Subscription that exists.
LeaveStep(t) ==
    /\ tasks[t].pc \in {"sweep", "verify", "filter"}
    /\ tasks[t].got /\ ~tasks[t].res
    /\ <<tasks[t].v, tasks[t].chan>> \in db.subs
    /\ tasks'[t] # tasks[t]

\* C8: a leave found for an existing Subscription removes it and takes one
\* from channels_joined; with penalty 5 (sweep, verify pass) the balance
\* drops by exactly 5 and the ChannelLeaver has penalty_applied = true, with
\* penalty 0 (filter pass) the balance is unchanged and the ChannelLeaver
\* has penalty_applied = false.
C8_PenaltyAsymmetry ==
    [][\A t \in Tasks :
          LeaveStep(t) =>
            LET u == tasks[t].v
                c == tasks[t].chan
            IN  /\ <<u, c>> \notin db'.subs
                /\ db'.subs = db.subs \ {<<u, c>>}
                /\ db'.users[u].channels_joined = db.users[u].channels_joined - 1
                /\ db'.users[u].points = db.users[u].points - PassPenalty(t)
                /\ <<u, c>> \in DOMAIN db'.leavers
                /\ db'.leavers[<<u, c>>] =
                      [previously_subscribed |-> TRUE,
                       penalty_applied |-> (tasks[t].pc # "filter")]]_vars

\* One leave was recorded with the penalty and one without.
C8_Witness ==
    \E p, q \in DOMAIN db.leavers :
        /\ db.leavers[p].penalty_applied
        /\ ~db.leavers[q].penalty_applied
        /\ db.users[q[1]].channels_joined = Cardinality(SubscribedTo(q[1]))

\* C9: whenever a Subscription is removed with the penalty applied, the
\* user's balance b becomes exactly b - LEAVE_PENALTY, below zero when
\* b < LEAVE_PENALTY.
C9_NegativeBalance ==
    [][\A u \in Users, c \in Channels :
          (/\ <<u, c>> \in db.subs
           /\ <<u, c>> \notin db'.subs
           /\ <<u, c>> \in DOMAIN db'.leavers
           /\ db'.leavers[<<u, c>>].penalty_applied)
          => db'.users[u].points = db.users[u].points - LEAVE_PENALTY]_vars

\* A user penalized with fewer than LEAVE_PENALTY points holds a negative
\* balance.
C9_Witness ==
    \E u \in Users :
        /\ PenalizedFor(u) # {}
        /\ db.users[u].points < 0
        /\ db.users[u].points = SumAward(db, LeftFrom(u)) - LEAVE_PENALTY

(* ------------------------------------------------------------------ *)
(* Re-adding a channel                                                 *)
(* ------------------------------------------------------------------ *)

\* Channel c of database d is a fresh campaign with the target given.
Fresh(d, c, target) ==
    /\ c \in DOMAIN d.channels
    /\ GetChannelSubscribers(d, c) = {}
    /\ d.channels[c].gained = 0
    /\ d.channels[c].active
    /\ d.channels[c].target = target

\* C10: in every state the bot reaches, adding a channel whose username is
\* already present, by the admin's command with any type and target or by
\* an order for any package, leaves no Subscription for it, gained = 0, the
\* channel active and its target the new one.
C10_ResetOnReadd ==
    \A c \in DOMAIN db.channels :
        /\ \A ty \in ChannelTypes, target \in 1..MaxTarget :
              Fresh(AdminAddChannel(db, ADMIN_ID, c, ty, target), c, target)
        /\ \A u \in Users, n \in Packages :
              Fresh(CreateOrder(db, u, c, n, SHOP_PRICES[n]).db, c, n)

\* A channel with a credited Subscription was added again: a second order
\* names it, it is fresh, and the Subscription is gone.
C10_Witness ==
    \E c \in DOMAIN db.channels, u \in Users :
        /\ Cardinality({i \in DOMAIN db.orders : db.orders[i].channel_username = c}) = 2
        /\ Fresh(db, c, db.channels[c].target)
        /\ db.users[u].points + Paid(db, u) \in {NORMAL_CHANNEL_POINTS, VIP_CHANNEL_POINTS}
        /\ db.users[u].channels_joined = 1
        /\ GetUserSubscriptions(db, u) = {}

(* ------------------------------------------------------------------ *)
(* Lifecycle of channels and orders                                    *)
(* ------------------------------------------------------------------ *)

\* The channels whose order_id is order i.
ChannelsOfOrder(d, i) == {c \in DOMAIN d.channels : d.channels[c].order_id = i}

\* C11: a channel that a recount deactivated at gained >= target stays
\* completed until the admin deletes it: after any step it is either gone
\* or still inactive.
C11_CompletedIsTerminal ==
    [][\A c \in Channels :
          Completed(db, c) =>
              \/ c \notin DOMAIN db'.channels
              \/ ~db'.channels[c].active]_vars

\* C12: every order whose status is active is the order_id of exactly one
\* row of channels.
C12_OrderChannelOneToOne ==
    \A i \in DOMAIN db.orders :
        db.orders[i].status = "active" => Cardinality(ChannelsOfOrder(db, i)) = 1

\* C13: a confirmed purchase either places the order whole (the price
\* debited, one order added, the channel a fresh campaign referencing it) or
\* leaves the buyer's row, the orders and the channels as they were.
C13_PlaceOrderAtomic ==
    [][\A t \in Handlers :
          (tasks[t].pc = "confirm" /\ tasks'[t].pc = "idle") =>
            LET u == tasks[t].user
                c == tasks[t].chan
                n == tasks[t].n
            IN  \/ /\ Len(db'.orders) = Len(db.orders) + 1
                   /\ db'.users[u].points = db.users[u].points - SHOP_PRICES[n]
                   /\ Fresh(db', c, n)
                   /\ db'.channels[c].order_id = Len(db'.orders)
                \/ /\ db'.users = db.users
                   /\ db'.orders = db.orders
                   /\ db'.channels = db.channels]_vars

\* C14: an order's status becomes completed only in a step in which a task
\* recounts the channel that references the order (a credited join or the
\* end of a sweep of that channel), the channel was active, and the
\* Subscriptions counted, the owner's left out, have reached its target.
C14_SoleCompletedTransition ==
    [][\A i \in DOMAIN db.orders :
          (db.orders[i].status # "completed" /\ db'.orders[i].status = "completed") =>
            \E t \in Tasks :
                LET c == tasks[t].chan
                IN  /\ CreditedJoinStep(t) \/ SweepRecountStep(t)
                    /\ c \in DOMAIN db.channels
                    /\ db.channels[c].active
                    /\ db.channels[c].order_id = i
                    /\ Cardinality(SubscribersBut(db', c, {db.orders[i].user_id}))
                          >= db.channels[c].target
                    /\ db'.orders[i] = [db.orders[i] EXCEPT !.status = "completed",
                                                            !.completed_at = TRUE]]_vars

\* One order was completed by a recount while an order placed for another
\* channel is still active.
C14_Witness ==
    \E i, j \in DOMAIN db.orders :
        /\ db.orders[i].status = "completed"
        /\ db.orders[j].status = "active"
        /\ db.orders[i].channel_username # db.orders[j].channel_username
        /\ \E c \in ChannelsOfOrder(db, i) :
              db.channels[c].gained >= db.channels[c].target

\* C15: whenever a step changes a channel's gained, the value written is
\* the number of the channel's Subscriptions not held by the order's owner
\* (0 after the reset of a re-added channel, which also purges them); a
\* leave recorded by the verify or filter pass, which recounts nothing,
\* writes no channel row; a new channel starts at 0; and every recount of
\* an active channel leaves gained at that number.
C15_GainedIsDerived ==
    [][/\ \A c \in DOMAIN db.channels \cap DOMAIN db'.channels :
            db'.channels[c].gained # db.channels[c].gained =>
                db'.channels[c].gained
                    = Cardinality(SubscribersBut(db', c, {OwnerOf(db', c)}))
       /\ \A t \in Tasks :
            (tasks[t].pc \in {"verify", "filter"} /\ tasks'[t] # tasks[t])
            => db'.channels = db.channels
       /\ \A c \in DOMAIN db'.channels \ DOMAIN db.channels :
            db'.channels[c].gained = 0
       /\ \A t \in Tasks :
            LET c == tasks[t].chan
            IN  (/\ CreditedJoinStep(t) \/ SweepRecountStep(t)
                 /\ c \in DOMAIN db.channels
                 /\ db.channels[c].active)
                => db'.channels[c].gained
                      = Cardinality(SubscribersBut(db', c, {OwnerOf(db, c)}))]_vars

\* The tick's recount took gained from 1 back to 0 after the only credited
\* subscriber was found absent; the channel was added once.
C15_Witness ==
    \E c \in DOMAIN db.channels, u \in Users :
        /\ db.channels[c].active
        /\ db.channels[c].gained = 0
        /\ <<u, c>> \in DOMAIN db.leavers
        /\ Cardinality({i \in DOMAIN db.orders : db.orders[i].channel_username = c}) = 1
        /\ used.ticks = 1
        /\ tasks[Scheduler].pc = "idle"

(* ------------------------------------------------------------------ *)
(* Join claims that fail                                               *)
(* ------------------------------------------------------------------ *)

\* C16: a join claim for a Subscription the user holds ends at once as
\* AlreadyJoined and never reaches the platform; a claim the platform
\* answers "not a member" ends as NotMember; a claim by a member for a
\* channel that is missing or inactive ends as ChannelUnavailable; and each
\* of the three leaves the database, so the Subscriptions, the points and
\* channels_joined, as it was.
C16_JoinErrorsChangeNothing ==
    [][\A t \in Handlers :
          /\ (tasks[t].pc = "idle" /\ tasks'[t].pc = "join")
                => <<tasks'[t].user, tasks'[t].chan>> \notin db.subs
          /\ (/\ tasks[t].pc = "idle" /\ tasks'[t].pc = "idle"
              /\ used'.updates # used.updates
              /\ tasks'[t].result = "AlreadyJoined")
                => db' = db
          /\ (Ready(t, "join") /\ tasks'[t].pc \in {"idle", "notify"}) =>
                /\ ~tasks[t].res
                      => tasks'[t].result = "NotMember"
                /\ (tasks[t].res /\ tasks[t].chan \notin GetActiveChannels(db))
                      => tasks'[t].result = "ChannelUnavailable"
                /\ tasks'[t].result \in {"NotMember", "ChannelUnavailable"}
                      => db' = db]_vars

\* A member of a completed channel, the only channel there is, has claimed
\* the join and was told the channel is unavailable.
C16_Witness ==
    \E t \in Handlers, c \in Channels, u \in Users :
        /\ tasks[t].result = "ChannelUnavailable"
        /\ DOMAIN db.channels = {c}
        /\ Completed(db, c)
        /\ \A p \in member : p[2] = c
        /\ <<u, c>> \in member
        /\ <<u, c>> \notin db.subs
        /\ db.users[u].points = 0
        /\ db.users[u].channels_joined = 0

\* C17: when the platform call fails the oracle's answer is False; a join
\* claim that goes on with the answer False while its user is a member of
\* the channel ends as NotMember, with no Subscription for the pair and no
\* user row changed.
C17_OracleFailsClosed ==
    [][\A t \in Tasks :
          /\ (/\ tasks[t].pc \in {"join", "sweep", "verify", "filter"}
              /\ ~tasks[t].got /\ tasks'[t].got
              /\ used'.errors = used.errors + 1)
                => ~tasks'[t].res
          /\ (/\ Ready(t, "join") /\ ~tasks[t].res
              /\ <<tasks[t].user, tasks[t].chan>> \in member
              /\ tasks'[t].pc \in {"idle", "notify"})
                => /\ tasks'[t].result = "NotMember"
                   /\ <<tasks[t].user, tasks[t].chan>> \notin db'.subs
                   /\ db'.users = db.users]_vars

\* After one admin add and one join claim, made by the only member of the
\* active channel while the platform call failed: NotMember, nothing credited.
C17_Witness ==
    \E t \in Handlers, p \in Pairs :
        /\ tasks[t].result = "NotMember"
        /\ member = {p}
        /\ p[2] \in GetActiveChannels(db)
        /\ used.errors = 1 /\ used.moves = 1 /\ used.updates = 2
        /\ db.subs = {}
        /\ db.users[p[1]].channels_joined = 0

(* ------------------------------------------------------------------ *)
(* Subscriptions and leaver facts                                      *)
(* ------------------------------------------------------------------ *)

\* C18: no (user, channel) pair has a Subscription and a ChannelLeaver fact
\* at once; a user_joined_channel that inserts the Subscription leaves no
\* leaver fact for the pair, and a penalize_channel_leaver that records the
\* leaver fact has removed the Subscription.
C18_ComebackErasesLeaver ==
    /\ db.subs \cap DOMAIN db.leavers = {}
    /\ \A u \in Users, c \in Channels :
          /\ LET j == UserJoinedChannel(db, u, c, Award(db, c))
             IN  j.ret => /\ <<u, c>> \in j.db.subs
                          /\ <<u, c>> \notin DOMAIN j.db.leavers
          /\ \A p \in {NO_PENALTY, LEAVE_PENALTY} :
                LET d == PenalizeChannelLeaver(db, u, c, p)
                IN  <<u, c>> \in DOMAIN d.leavers => <<u, c>> \notin d.subs

\* A user was credited, penalized as a leaver and credited again for the
\* same channel: two awards less the penalty, one Subscription, no leaver fact.
C18_Witness ==
    \E c \in DOMAIN db.channels :
        /\ <<"u2", c>> \in db.subs
        /\ db.leavers = EmptyFn
        /\ db.users["u2"].points = 2 * Award(db, c) - LEAVE_PENALTY
        /\ db.users["u2"].channels_joined = 1

(* ------------------------------------------------------------------ *)
(* One sweep, nothing else running                                     *)
(* ------------------------------------------------------------------ *)

\* Both channels added by the admin, two join claims credited, any set of
\* users in the channels on the platform, which stays as it is.
SweepInit ==
    /\ \E ty \in ChannelTypes, target \in 1..MaxTarget, p1 \in Pairs, p2 \in Pairs :
          db = JoinAll(
                 AdminAddChannel(
                   AdminAddChannel(InitDB(NoBalance), ADMIN_ID, "a", ty, target),
                   ADMIN_ID, "b", "normal", target),
                 <<p1, p2>>)
    /\ member \in SUBSET Pairs
    /\ tasks = [t \in Tasks |-> IdleTask("none", {})]
    /\ purchase = [u \in Users |-> 0]
    /\ verification = [u \in Users |-> NoVerification]
    /\ used = [updates |-> 0, ticks |-> 0, moves |-> 0, errors |-> 0]

\* The scheduler's tick alone: no handler runs and no platform call fails,
\* so what the oracle reports about a pair is whether it is in member.
SweepAloneNext ==
    \/ Tick
    \/ OracleAnswers(Scheduler)
    \/ ResumeSweep(Scheduler)

SpecSweep == SweepInit /\ [][SweepAloneNext]_vars

\* C19: when the tick has swept the active channels with nothing else
\* running, the Subscriptions left to an active channel are those of the
\* subscribers the oracle reported present and every subscriber it reported
\* absent has a penalized ChannelLeaver fact in place of the Subscription;
\* each user was debited exactly 5 points per such fact and nothing else,
\* and channels_joined counts the Subscriptions the user still holds.
C19_SweepResult ==
    (tasks[Scheduler].pc = "idle" /\ used.ticks = 1) =>
        /\ \A c \in GetActiveChannels(db), u \in Users :
              /\ <<u, c>> \in db.subs => <<u, c>> \in member
              /\ <<u, c>> \in DOMAIN db.leavers =>
                    /\ <<u, c>> \notin member
                    /\ <<u, c>> \notin db.subs
                    /\ db.leavers[<<u, c>>] =
                          [previously_subscribed |-> TRUE, penalty_applied |-> TRUE]
        /\ \A p \in DOMAIN db.leavers : p[2] \in GetActiveChannels(db)
        /\ \A u \in Users :
              /\ db.users[u].points =
                    SumAward(db, SubscribedTo(u) \cup LeftFrom(u)) - Paid(db, u)
                    - LEAVE_PENALTY * Cardinality(LeftFrom(u))
              /\ db.users[u].channels_joined = Cardinality(SubscribedTo(u))

\* The tick is over; of two credited subscribers of an active channel the
\* one present kept the Subscription and the one absent is a penalized leaver.
C19_Witness ==
    \E c \in GetActiveChannels(db), u \in Users, v \in Users :
        /\ tasks[Scheduler].pc = "idle" /\ used.ticks = 1
        /\ <<u, c>> \in db.subs /\ <<u, c>> \in member
        /\ <<v, c>> \in DOMAIN db.leavers /\ <<v, c>> \notin member
        /\ db.users[v].points = Award(db, c) - Paid(db, v) - LEAVE_PENALTY

\* C20: a task that has dealt with one subscriber of a sweep, whatever the
\* oracle's answer and whether or not the platform call or the ledger
\* mutation failed, goes on to ask about another subscriber of the channel's
\* snapshot while there is one; after the last it goes on to the next
\* channel of the tick's list that has subscribers, and it leaves the loop
\* only when no channel left on the list has any.
C20_SweepErrorIsolation ==
    [][\A t \in Tasks :
          (Ready(t, "sweep") /\ tasks'[t] # tasks[t]) =>
            LET tk == tasks[t]
                nx == tasks'[t]
                rest == tk.chans
            IN  IF tk.todo # {}
                THEN /\ nx.pc = "sweep" /\ ~nx.got
                     /\ nx.chan = tk.chan /\ nx.chans = rest
                     /\ nx.v \in tk.todo
                     /\ nx.todo = tk.todo \ {nx.v}
                ELSE IF nx.pc = "sweep"
                THEN \E k \in 1..Len(rest) :
                        /\ nx.chan = rest[k]
                        /\ nx.chans = SubSeq(rest, k + 1, Len(rest))
                        /\ ~nx.got
                        /\ \A j \in 1..(k - 1) : GetChannelSubscribers(db', rest[j]) = {}
                        /\ {nx.v} \cup nx.todo = GetChannelSubscribers(db', rest[k])
                ELSE \A j \in 1..Len(rest) : GetChannelSubscribers(db', rest[j]) = {}]_vars

\* The platform call failed for one of two subscribers, both members; the
\* scheduler penalized that one and is now asking about the other.
C20_Witness ==
    \E p \in member :
        /\ Cardinality(member) = 2 /\ used.moves = 2
        /\ used.errors = 1
        /\ p \in DOMAIN db.leavers
        /\ tasks[Scheduler].pc = "sweep"
        /\ tasks[Scheduler].chan = p[2]
        /\ tasks[Scheduler].v # p[1]
        /\ <<tasks[Scheduler].v, p[2]>> \in db.subs

(* ------------------------------------------------------------------ *)
(* Order of the sweep and the recount inside a tick                    *)
(* ------------------------------------------------------------------ *)

TickAgain ==
    /\ tasks[Scheduler].pc = "idle"
    /\ LET loop == SweepLoop(db, SeqById(db, GetActiveChannels(db)), {})
           tk == [NewTask("tick", "all", NoUser) EXCEPT
                     !.result = tasks[Scheduler].result]
       IN  /\ db' = loop.db
           /\ \E nx \in SweepNext(tk, loop) :
                   tasks' = [tasks EXCEPT ![Scheduler] = nx]
    /\ used' = [used EXCEPT !.ticks = (@ + 1) % (MaxTicks + 1)]
    /\ UNCHANGED <<member, purchase, verification>>

\* The scheduler in `except Exception`: the error is logged and the task
\* waits in asyncio.sleep(60).
BackingOff ==
    [IdleTask("BackedOff", {}) EXCEPT !.pc = "backoff", !.kind = "tick"]

\* An exception leaves the try block of the loop.  get_active_channels
\* raises as the tick begins, or update_channel_members raises at its first
\* statement when the sweep of a channel is over; neither has a handler of
\* its own before the loop's.
TickRaises ==
    /\ \/ /\ tasks[Scheduler].pc = "idle"
          /\ used' = [used EXCEPT !.ticks = (@ + 1) % (MaxTicks + 1)]
       \/ /\ Ready(Scheduler, "sweep")
          /\ tasks[Scheduler].todo = {}
          /\ used' = used
    /\ tasks' = [tasks EXCEPT ![Scheduler] = BackingOff]
    /\ UNCHANGED <<db, member, purchase, verification>>

\* Mutant: the except branch leaves the loop.
BackoffEnds_Stops ==
    /\ tasks[Scheduler].pc = "backoff"
    /\ tasks' = [tasks EXCEPT ![Scheduler].pc = "stopped"]
    /\ UNCHANGED <<db, member, purchase, used, verification>>

\* asyncio.sleep(60) is over: back to the head of `while True`.
BackoffEnds ==
    /\ tasks[Scheduler].pc = "backoff"
    /\ tasks' = [tasks EXCEPT ![Scheduler] = IdleTask("BackedOff", {})]
    /\ UNCHANGED <<db, member, purchase, used, verification>>

\* A step of the periodic task itself.
SchedulerStep ==
    \/ TickAgain
    \/ TickRaises
    \/ BackoffEnds
    \/ ResumeSweep(Scheduler)

\* The platform answers the call the periodic task waits for.
SchedulerAnswered ==
    \/ OracleAnswers(Scheduler)
    \/ OracleFails(Scheduler)

TickNext ==
    \/ SchedulerStep
    \/ SchedulerAnswered
    \/ \E u \in Leavers : Move(u, "a")

\* The event loop runs a task that can run (its sleep is over, or the call
\* it awaits has returned), and every platform call returns or times out.
TickFairness ==
    /\ WF_vars(SchedulerStep)
    /\ WF_vars(SchedulerAnswered)

SpecTick == LeaveInit /\ [][TickNext]_vars /\ TickFairness

\* C22: the scheduler never terminates on error.  The periodic task is
\* always at the head of its loop, inside a tick or backing off; whenever it
\* is backing off after an exception, a further tick begins later; and ticks
\* begin infinitely often (the count of ticks begun, kept modulo
\* MaxTicks + 1, takes each of its values again and again).
C22_SchedulerNeverStops ==
    /\ [](tasks[Scheduler].pc \in {"idle", "sweep", "backoff"})
    /\ \A k \in 0..MaxTicks :
          /\ []<>(used.ticks = k)
          /\ (tasks[Scheduler].pc = "backoff" /\ used.ticks = k) ~> (used.ticks # k)

\* A tick is sweeping a channel after an earlier tick ended in the except
\* branch.
C22_Witness ==
    /\ tasks[Scheduler].pc = "sweep"
    /\ tasks[Scheduler].result = "BackedOff"

(* ------------------------------------------------------------------ *)
(* Completion of an order a user paid for                              *)
(* ------------------------------------------------------------------ *)

\* The other users of the bot: as many as the smallest package of
\* SHOP_PRICES needs beside the last subscriber.
CrowdSeq == <<"m1", "m2", "m3", "m4", "m5", "m6", "m7", "m8", "m9">>
Crowd == {CrowdSeq[i] : i \in 1..Len(CrowdSeq)}

\* add_user for each user of S.
AddUsers(d, S) ==
    [d EXCEPT !.users = [u \in DOMAIN @ \cup S |->
        IF u \in DOMAIN @ THEN @[u] ELSE NewUserRow(NoUser)]]

\* The credited joins of channel c by the users of the sequence us.
JoinsOf(us, c) == [i \in 1..Len(us) |-> <<us[i], c>>]

\* User u1 has bought the smallest package for channel a, and the crowd has
\* joined it and been credited: the order is one subscriber short.
OneShort ==
    JoinAll(CreateOrder(AddUsers(InitDB([u \in Users |->
                            IF u = "u1" THEN 2 * RichPoints ELSE 0]), Crowd),
                        "u1", "a", 10, SHOP_PRICES[10]).db,
            JoinsOf(CrowdSeq, "a"))

\* The order was completed by u2's join, the admin removed the channel and
\* u1 bought the package for it again: a new channels row, active, with the
\* Subscriptions of the removed one still there.
Reordered ==
    CreateOrder(RemoveChannel(JoinChannel(OneShort, "u2", "a", TRUE).db, "a"),
                "u1", "a", 10, SHOP_PRICES[10]).db

\* Everybody who joined is in the channel on the platform, and so is u2.
NotifyInit ==
    /\ db \in {OneShort, Reordered}
    /\ member = {<<u, "a">> : u \in Crowd \cup {"u2"}}
    /\ tasks = [t \in Tasks |-> IdleTask("none", {})]
    /\ purchase = [u \in Users |-> 0]
    /\ verification = [u \in Users |-> NoVerification]
    /\ used = [updates |-> 0, ticks |-> 0, moves |-> 0, errors |-> 0]

\* One recount path per run: u2's join claim, a manual refresh, or the
\* scheduler's tick, each with the completion messages that follow it.
NotifyNext ==
    \/ used.ticks = 0 /\ StartJoin("h1", "u2", "a")
    \/ used.ticks = 0 /\ \E u \in {"u2", "m1"} : StartRefresh("h1", u, "all")
    \/ used.updates = 0 /\ Tick
    \/ \E t \in {"h1", Scheduler} : OracleAnswers(t)
    \/ ResumeJoin("h1")
    \/ \E t \in {"h1", Scheduler} : ResumeSweep(t)
    \/ ResumeFilter("h1")
    \/ \E t \in {"h1", Scheduler} : NotifyDelivered(t)
    \/ \E t \in {"h1", Scheduler} : NotifyFails(t)

SpecNotify == NotifyInit /\ [][NotifyNext]_vars

\* C23: completion is always announced.  When a run of a task that was told
\* by update_channel_members that an order completed is over, the run has
\* tried to send the order's owner a message, unless the owner is the admin:
\* on the join path, the refresh path and the tick path, and whether or not
\* the message to the admin went out.
C23_CompletionAnnounced ==
    [][\A t \in Tasks :
          (tasks[t].pc # "idle" /\ tasks'[t].pc = "idle") =>
              \A k \in tasks'[t].completed :
                  k[2] \notin {NoUser, ADMIN_ID} => k[2] \in tasks'[t].told]_vars

(* ------------------------------------------------------------------ *)
(* Redemption codes (/makecode, handle_message)                        *)
(* ------------------------------------------------------------------ *)

\* The codes of a run, what they are worth, and the largest usage limit.
Codes == {"gift", "promo"}
CodePoints == {7}
MaxLimit == 2
\* Code commands and redemption messages per behaviour.
MaxCodeUpdates == 5

CodeHandlers == {"h1", "h2"}

\* /makecode code points limit, from the admin.
MakeCodeCommand(t, code, points, limit) ==
    /\ tasks[t].pc = "idle"
    /\ used.updates < MaxCodeUpdates
    /\ db' = CreateCode(db, code, points, limit).db
    /\ tasks' = [tasks EXCEPT ![t] = IdleTask("none", {})]
    /\ used' = Dispatched
    /\ UNCHANGED <<member, purchase, verification>>

\* handle_message for the text a user sends after the redeem prompt
\* (awaiting_code is set): add_user, redeem_code, then the answer is sent.
RedeemMessage(t, u, text) ==
    /\ tasks[t].pc = "idle"
    /\ used.updates < MaxCodeUpdates
    /\ ~verification[u].awaiting
    /\ LET r == RedeemCode(AddUser(db, u), u, text)
       IN  /\ db' = r.db
           /\ tasks' = [tasks EXCEPT ![t] =
                  [NewTask("redeem", "all", u) EXCEPT
                      !.pc = "reply", !.text = text, !.result = r.ret]]
    /\ used' = Dispatched
    /\ UNCHANGED <<member, purchase, verification>>

\* await update.message.reply_text(message, ...) is over.
ReplySent(t) ==
    /\ tasks[t].pc = "reply"
    /\ tasks' = [tasks EXCEPT ![t] = IdleTask(tasks[t].result, {})]
    /\ UNCHANGED <<db, member, purchase, used, verification>>

CodesInit ==
    /\ db = InitDB(NoBalance)
    /\ tasks = [t \in Tasks |-> IdleTask("none", {})]
    /\ member = {}
    /\ purchase = [u \in Users |-> 0]
    /\ verification = [u \in Users |-> NoVerification]
    /\ used = [updates |-> 0, ticks |-> 0, moves |-> 0, errors |-> 0]

CodesNext ==
    \/ \E t \in CodeHandlers, code \in Codes, points \in CodePoints,
          limit \in 1..MaxLimit : MakeCodeCommand(t, code, points, limit)
    \/ \E t \in CodeHandlers, u \in Users, text \in Codes : RedeemMessage(t, u, text)
    \/ \E t \in CodeHandlers : ReplySent(t)

SpecCodes == CodesInit /\ [][CodesNext]_vars

\* The points of the codes in S.
RECURSIVE SumCodePoints(_, _)
SumCodePoints(d, S) ==
    IF S = {} THEN 0
    ELSE LET code == CHOOSE x \in S : TRUE
         IN  d.codes[code].points + SumCodePoints(d, S \ {code})

\* Every (code, user) pair has at most one usage row, and each user's balance
\* is the points of the codes the user has a usage row for.
CreditedOncePerCode ==
    /\ \A i, j \in 1..Len(db.code_usage) :
          db.code_usage[i] = db.code_usage[j] => i = j
    /\ \A u \in Users :
          db.users[u].points =
              SumCodePoints(db, {code \in DOMAIN db.codes : HasUsed(db, u, code)})

\* C24 as stated: redemption is at most once per user per code, and a second
\* redemption of a code by the same user returns the already-used outcome
\* (-1) and changes no balance, usage row or used_count.
C24_SecondRedemptionAlreadyUsed ==
    /\ CreditedOncePerCode
    /\ \A u \in Users, code \in DOMAIN db.codes :
          HasUsed(db, u, code) =>
              /\ RedeemCode(db, u, code).ret = "AlreadyUsed"
              /\ RedeemCode(db, u, code).db = db

\* C24, amended: redemption is at most once per user per code, and a second
\* redemption of a code by the same user changes no balance, usage row or
\* used_count; it returns the already-used outcome (-1) while the code has
\* uses left, and the invalid outcome (None) once the code is at its limit.
C24_RedeemedOncePerUser ==
    /\ CreditedOncePerCode
    /\ \A u \in Users, code \in DOMAIN db.codes :
          HasUsed(db, u, code) =>
              /\ RedeemCode(db, u, code).ret =
                    IF db.codes[code].used_count >= db.codes[code].usage_limit
                    THEN "None" ELSE "AlreadyUsed"
              /\ RedeemCode(db, u, code).db = db
    /\ \A t \in CodeHandlers :
          (tasks[t].pc = "reply" /\ tasks[t].result = "AlreadyUsed") =>
              HasUsed(db, tasks[t].user, tasks[t].text)

\* A user who redeemed a code with uses left has sent it again and is being
\* told it was already used; the balance holds the code's points once.
C24_Witness ==
    \E t \in CodeHandlers, p \in CodePoints :
        /\ tasks[t].pc = "reply"
        /\ tasks[t].result = "AlreadyUsed"
        /\ HasUsed(db, tasks[t].user, tasks[t].text)
        /\ db.codes[tasks[t].text].used_count = 1
        /\ db.codes[tasks[t].text].points = p
        /\ db.users[tasks[t].user].points = p

AdminAmounts == {6}

PointHandlers == {"h1", "h2"}

\* _handle_daily_reward: claim_daily_reward when it can be claimed, then the
\* answer is sent.
DailyReward(t, u) ==
    /\ tasks[t].pc = "idle"
    /\ Dispatch
    /\ db' = ClaimDailyReward(AddUser(db, u), u, DAILY_REWARD_POINTS)
    /\ tasks' = [tasks EXCEPT ![t] =
            [NewTask("daily", "all", u) EXCEPT !.pc = "reply"]]
    /\ used' = Dispatched
    /\ UNCHANGED <<member, purchase, verification>>

\* add_user with the referrer of the link, and the referral award when the
\* row is new and the referrer is somebody else.
RegisterUser(d, u, referred_by) ==
    LET user_added == AddUserReferred(d, u, referred_by)
    IN  IF user_added.ret /\ referred_by # NoUser /\ referred_by # u
        THEN UpdateUserPoints(user_added.db, referred_by, REFERRAL_POINTS)
        ELSE user_added.db

\* start and _complete_user_registration for a user who passed the
\* verification: add_user with the referrer of the link, the referral award
\* when the row is new and the referrer is somebody else, then the messages.
CompleteRegistration(t, u, referred_by) ==
    /\ tasks[t].pc = "idle"
    /\ Dispatch
    /\ db' = RegisterUser(db, u, referred_by)
    /\ tasks' = [tasks EXCEPT ![t] =
            [NewTask("start", "all", u) EXCEPT !.pc = "reply"]]
    /\ used' = Dispatched
    /\ UNCHANGED <<member, purchase, verification>>

\* add_points (points > 0) and remove_points (points < 0) of the admin for
\* a user that exists: update_user_points, then the answer is sent.
AdminPoints(t, u, points) ==
    /\ tasks[t].pc = "idle"
    /\ Dispatch
    /\ u \in DOMAIN db.users
    /\ db' = UpdateUserPoints(db, u, points)
    /\ tasks' = [tasks EXCEPT ![t] =
            [NewTask("admin_points", "all", u) EXCEPT !.pc = "reply", !.n = points]]
    /\ used' = Dispatched
    /\ UNCHANGED <<member, purchase, verification>>

\* Channel a added by the admin, a code created, u1 registered with
\* RichPoints and, in half of the runs, credited for joining a; u2 has not
\* started the bot yet.
PointsInit ==
    /\ \E joined \in BOOLEAN :
          LET d0 == InitDB([u \in Users |-> IF u = "u1" THEN RichPoints ELSE 0])
              d1 == [d0 EXCEPT !.users = Without(@, "u2")]
              d2 == CreateCode(AdminAddChannel(d1, ADMIN_ID, "a", "normal", MaxTarget),
                               "gift", 7, MaxLimit).db
          IN  /\ db = IF joined THEN JoinChannel(d2, "u1", "a", TRUE).db ELSE d2
              /\ member = IF joined THEN {<<"u1", "a">>} ELSE {}
    /\ tasks = [t \in Tasks |-> IdleTask("none", {})]
    /\ purchase = [u \in Users |-> 0]
    /\ verification = [u \in Users |-> NoVerification]
    /\ used = [updates |-> 0, ticks |-> 0, moves |-> 0, errors |-> 0]

\* Every operation that credits or debits u1, on two handlers and the
\* periodic task, in any interleaving.
PointsNext ==
    \/ \E t \in PointHandlers : StartJoin(t, "u1", "a")
    \/ \E t \in PointHandlers : ResumeJoin(t)
    \/ Tick
    \/ ResumeSweep(Scheduler)
    \/ \E t \in PointHandlers \cup {Scheduler} : OracleAnswers(t)
    \/ Move("u1", "a")
    \/ \E t \in PointHandlers : DailyReward(t, "u1")
    \/ \E t \in PointHandlers : Dispatch /\ RedeemMessage(t, "u1", "gift")
    \/ \E t \in PointHandlers : CompleteRegistration(t, "u2", "u1")
    \/ \E t \in PointHandlers, p \in AdminAmounts :
          AdminPoints(t, "u1", p) \/ AdminPoints(t, "u1", -p)
    \/ \E t \in PointHandlers : HandleBuy(t, "u1", 10)
    \/ \E t \in PointHandlers : StartConfirm(t, "u1", "b")
    \/ \E t \in PointHandlers : ResumeConfirm(t)
    \/ \E t \in PointHandlers : ReplySent(t)

SpecPoints == PointsInit /\ [][PointsNext]_vars

\* The sum of f over the set S.
RECURSIVE SumOver(_, _)
SumOver(f, S) ==
    IF S = {} THEN 0
    ELSE LET x == CHOOSE y \in S : TRUE
         IN  f[x] + SumOver(f, S \ {x})

\* What a step applies to the balance of user u, read off everything the
\* step writes except the balances: Subscriptions inserted (award), leaver
\* facts written with a penalty, usage rows and orders inserted, a daily
\* reward marked, users inserted with u as their referrer, and the amount of
\* an admin command that began to answer.
AppliedTo(u) ==
    LET joins == {c \in Channels : <<u, c>> \in db'.subs \ db.subs}
        leaves == {c \in Channels :
                      /\ <<u, c>> \in db.subs \ db'.subs
                      /\ <<u, c>> \in DOMAIN db'.leavers
                      /\ db'.leavers[<<u, c>>].penalty_applied}
        usages == {i \in (Len(db.code_usage) + 1)..Len(db'.code_usage) :
                      db'.code_usage[i][2] = u}
        bought == {i \in (Len(db.orders) + 1)..Len(db'.orders) :
                      db'.orders[i].user_id = u}
        daily == ~db.users[u].last_daily_reward /\ db'.users[u].last_daily_reward
        referred == {w \in DOMAIN db'.users \ DOMAIN db.users :
                      db'.users[w].referred_by = u /\ w # u}
        admin == {t \in Tasks :
                      /\ tasks[t].pc = "idle" /\ tasks'[t].pc = "reply"
                      /\ tasks'[t].kind = "admin_points" /\ tasks'[t].user = u}
    IN  SumOver([c \in joins |-> Award(db, c)], joins)
        - LEAVE_PENALTY * Cardinality(leaves)
        + SumOver([i \in usages |-> db.codes[db'.code_usage[i][1]].points], usages)
        - SumOver([i \in bought |-> db'.orders[i].points_cost], bought)
        + (IF daily THEN DAILY_REWARD_POINTS ELSE 0)
        + REFERRAL_POINTS * Cardinality(referred)
        + SumOver([t \in admin |-> tasks'[t].n], admin)

\* C26: no lost updates.  Whatever else is in flight for the same user (a
\* join claim or an order confirmation waiting for the platform, a sweep, an
\* answer being sent), every step leaves each balance at what it was plus
\* the credits and minus the debits the step applied; so the balance at any
\* time is the initial balance plus all credits minus all debits applied.
C26_NoLostUpdates ==
    [][\A u \in DOMAIN db.users :
          db'.users[u].points = db.users[u].points + AppliedTo(u)]_vars

\* An order confirmation of u1 is waiting for the platform, another handler
\* has just credited u1 a code, and the periodic task is about to penalize
\* u1 for having left: three operations on one balance in flight.
C26_Witness ==
    /\ \E t1, t2 \in PointHandlers :
          /\ tasks[t1].pc = "confirm" /\ tasks[t1].user = "u1"
          /\ tasks[t2].pc = "reply" /\ tasks[t2].result = "Redeemed"
          /\ tasks[t2].user = "u1"
    /\ Ready(Scheduler, "sweep") /\ ~tasks[Scheduler].res
    /\ tasks[Scheduler].v = "u1"
    /\ <<"u1", tasks[Scheduler].chan>> \in db.subs
    /\ db.users["u1"].points = RichPoints + NORMAL_CHANNEL_POINTS + 7

(* ------------------------------------------------------------------ *)
(* Mandatory channels                                                  *)
(* ------------------------------------------------------------------ *)

\* The mandatory channel of a run.
MandatoryChannels == {"news"}

\* start for a registered user: with mandatory channels it awaits
\* check_mandatory_channels_membership, one platform call per channel; with
\* none the welcome is sent.
StartCommand(t, u) ==
    /\ tasks[t].pc = "idle"
    /\ Dispatch
    /\ u \in DOMAIN db.users
    /\ LET mandatory_channels == GetMandatoryChannels(db)
           tk == [NewTask("start", "all", u) EXCEPT !.result = "Welcome"]
       IN  IF mandatory_channels = {}
           THEN tasks' = [tasks EXCEPT ![t] = [tk EXCEPT !.pc = "reply"]]
           ELSE \E c \in mandatory_channels :
                   tasks' = [tasks EXCEPT ![t] =
                       [tk EXCEPT !.pc = "gate", !.chan = c, !.v = u,
                                  !.ctodo = mandatory_channels \ {c}]]
    /\ used' = Dispatched
    /\ UNCHANGED <<db, member, purchase, verification>>

\* check_channel_membership_simple: the platform answers.
GateAnswers(t) ==
    /\ Awaiting(t, "gate")
    /\ tasks' = [tasks EXCEPT ![t].got = TRUE,
                              ![t].res = (<<tasks[t].v, tasks[t].chan>> \in member)]
    /\ UNCHANGED <<db, member, purchase, used, verification>>

\* check_mandatory_channels_membership goes on: a channel the user is not
\* in is missing; after the last one start answers with the list of the
\* missing channels, or with the welcome and the menu.
ResumeGate(t) ==
    /\ Ready(t, "gate")
    /\ LET tk == tasks[t]
           result == IF tk.res THEN tk.result ELSE "MustSubscribe"
       IN  IF tk.ctodo = {}
           THEN tasks' = [tasks EXCEPT ![t] =
                    [tk EXCEPT !.pc = "reply", !.got = FALSE, !.result = result]]
           ELSE \E c \in tk.ctodo :
                   tasks' = [tasks EXCEPT ![t] =
                       [tk EXCEPT !.got = FALSE, !.res = FALSE, !.chan = c,
                                  !.ctodo = tk.ctodo \ {c}, !.result = result]]
    /\ UNCHANGED <<db, member, purchase, used, verification>>

\* Channel a and a code are there, u1 is registered with RichPoints, and the
\* admin has made "news" mandatory; u1 is in news or not, and in a or not.
GateInit ==
    /\ LET d0 == InitDB([u \in Users |-> IF u = "u1" THEN RichPoints ELSE 0])
           d1 == CreateCode(AdminAddChannel(d0, ADMIN_ID, "a", "normal", MaxTarget),
                            "gift", 7, MaxLimit).db
           news == CHOOSE c \in MandatoryChannels : TRUE
       IN  db = AddMandatoryChannel(d1, news)
    /\ member \in SUBSET {<<"u1", "a">>, <<"u1", "news">>}
    /\ tasks = [t \in Tasks |-> IdleTask("none", {})]
    /\ purchase = [u \in Users |-> 0]
    /\ verification = [u \in Users |-> NoVerification]
    /\ used = [updates |-> 0, ticks |-> 0, moves |-> 0, errors |-> 0]

\* What u1 can do with the bot, one update at a time, while joining and
\* leaving the mandatory channel on the platform.
GateNext ==
    \/ StartCommand("h1", "u1")
    \/ GateAnswers("h1")
    \/ ResumeGate("h1")
    \/ StartJoin("h1", "u1", "a")
    \/ OracleAnswers("h1")
    \/ ResumeJoin("h1")
    \/ DailyReward("h1", "u1")
    \/ Dispatch /\ RedeemMessage("h1", "u1", "gift")
    \/ HandleBuy("h1", "u1", 10)
    \/ StartConfirm("h1", "u1", "b")
    \/ ResumeConfirm("h1")
    \/ ReplySent("h1")
    \/ \E c \in MandatoryChannels : Move("u1", c)

SpecGate == GateInit /\ [][GateNext]_vars

\* User u is in every mandatory channel.
InMandatory(u) == \A c \in GetMandatoryChannels(db) : <<u, c>> \in member

\* C27: mandatory channels gate all usage.  No step credits or debits a
\* user, or records a join, a code usage, a daily reward or an order for a
\* user, who at that moment is outside a mandatory channel.
C27_MandatoryGate ==
    [][\A u \in DOMAIN db.users :
          ~InMandatory(u) =>
              /\ db'.users[u] = db.users[u]
              /\ \A c \in Channels : <<u, c>> \in db'.subs <=> <<u, c>> \in db.subs
              /\ \A i \in 1..Len(db'.code_usage) :
                    db'.code_usage[i][2] = u => i <= Len(db.code_usage)
              /\ \A i \in 1..Len(db'.orders) :
                    db'.orders[i].user_id = u => i <= Len(db.orders)]_vars

(* ------------------------------------------------------------------ *)
(* The two passes of a channel-list request                            *)
(* ------------------------------------------------------------------ *)

\* Channel-list requests of the users who joined, one update at a time as
\* the dispatcher runs them, beside the periodic task, while the users come
\* and go on the platform.
ListNext ==
    \/ \E u \in Leavers, ty \in ChannelTypes : StartChannels("h1", u, ty)
    \/ Tick
    \/ ResumeVerify("h1")
    \/ ResumeFilter("h1")
    \/ ResumeSweep(Scheduler)
    \/ \E t \in {"h1", Scheduler} : OracleAnswers(t)
    \/ \E u \in Leavers, c \in Channels : Move(u, c)

SpecList == LeaveInit /\ [][ListNext]_vars

\* The subscriptions the filter pass of task record tk has still to check.
FilterSnapshot(tk) ==
    IF tk.pc = "filter" THEN {tk.chan} \cup tk.ctodo ELSE {}

\* C28: in a channel-list request, a Subscription reported absent in the
\* verify pass is gone after the step, removed with the 5-point debit (by
\* this step, or before it by the periodic sweep, which debits 5 as well);
\* the filter pass starts from Subscriptions that exist when the verify
\* pass has ended and never takes up another one; it removes only a
\* Subscription it was told is absent, with no debit; so no Subscription is
\* removed by both passes of a request.
C28_ListReconciliation ==
    [][\A t \in Handlers :
          LET tk == tasks[t]
              nx == tasks'[t]
              u  == tk.user
              c  == tk.chan
          IN  (tk.kind = "channels" /\ tk.got /\ nx # tk) =>
                /\ (tk.pc = "verify" /\ tk.res) => db' = db
                /\ (tk.pc = "verify" /\ ~tk.res) =>
                      /\ <<u, c>> \notin db'.subs
                      /\ <<u, c>> \in DOMAIN db'.leavers
                      /\ db'.leavers[<<u, c>>].penalty_applied
                      /\ IF <<u, c>> \in db.subs
                         THEN /\ db'.subs = db.subs \ {<<u, c>>}
                              /\ db'.users[u].points =
                                    db.users[u].points - LEAVE_PENALTY
                         ELSE db' = db
                /\ tk.pc = "verify" =>
                      \A x \in FilterSnapshot(nx) :
                          /\ <<u, x>> \in db'.subs
                          /\ ~(x = c /\ ~tk.res)
                /\ tk.pc = "filter" =>
                      /\ FilterSnapshot(nx) \subseteq tk.ctodo
                      /\ db' # db =>
                            /\ ~tk.res
                            /\ <<u, c>> \in db.subs
                            /\ db'.subs = db.subs \ {<<u, c>>}
                            /\ db'.users[u].points = db.users[u].points
                            /\ ~db'.leavers[<<u, c>>].penalty_applied]_vars

\* A request removed one Subscription of its user in the verify pass, with
\* the debit, and is about to remove another, found absent only by the
\* filter check, without it.
C28_Witness ==
    /\ used.ticks = 0
    /\ tasks["h1"].kind = "channels"
    /\ Ready("h1", "filter")
    /\ ~tasks["h1"].res
    /\ <<tasks["h1"].user, tasks["h1"].chan>> \in db.subs
    /\ \E x \in Channels \ {tasks["h1"].chan} :
          /\ <<tasks["h1"].user, x>> \in DOMAIN db.leavers
          /\ db.leavers[<<tasks["h1"].user, x>>].penalty_applied

(* ------------------------------------------------------------------ *)
(* Admin channel creation                                              *)
(* ------------------------------------------------------------------ *)

\* C29: admin channel creation is free.  An admin add-channel operation
\* leaves the admin's balance as it was, and the channel it makes has the
\* kind and the target the admin gave.
C29_AdminAddIsFree ==
    [][\A t \in Handlers, c \in Channels, ty \in ChannelTypes, target \in 1..MaxTarget :
          AddChannelCommand(t, c, ty, target) =>
              /\ db'.users[ADMIN_ID].points = db.users[ADMIN_ID].points
              /\ c \in DOMAIN db'.channels
              /\ db'.channels[c].type = ty
              /\ db'.channels[c].target = target]_vars

(* ------------------------------------------------------------------ *)
(* A check whose answer is applied late                                *)
(* ------------------------------------------------------------------ *)

\* User u1, who joined channel a through the bot and left it, asks for a
\* channel list, comes back to a and claims the join again, all handled one
\* update at a time, while the periodic task sweeps the channels.
StaleNext ==
    \/ \E ty \in ChannelTypes : StartChannels("h1", "u1", ty)
    \/ StartJoin("h1", "u1", "a")
    \/ Tick
    \/ ResumeVerify("h1")
    \/ ResumeFilter("h1")
    \/ ResumeJoin("h1")
    \/ ResumeSweep(Scheduler)
    \/ \E t \in {"h1", Scheduler} : OracleAnswers(t)
    \/ Move("u1", "a")

SpecStale == LeaveInit /\ [][StaleNext]_vars

\* Task t holds the answer "absent" of a check of (u, c) that it has not
\* applied yet.
HoldsAbsent(t, u, c) ==
    /\ tasks[t].pc \in {"sweep", "verify", "filter"}
    /\ tasks[t].got /\ ~tasks[t].res
    /\ tasks[t].v = u /\ tasks[t].chan = c

\* C30: a penalty is bound to the Subscription that was observed.  When a
\* join claim of (u, c) is credited with a new Subscription while another
\* task still holds the answer "absent" of a check it started for the
\* earlier Subscription of (u, c), removed since by another path, then
\* applying that answer leaves the new Subscription and the user's balance
\* as they are.
C30_PenaltyBoundToObserved ==
    [][\A t1 \in Handlers, t2 \in Tasks :
          LET u == tasks[t1].user
              c == tasks[t1].chan
          IN  (/\ CreditedJoinStep(t1)
               /\ t2 # t1
               /\ <<u, c>> \notin db.subs /\ <<u, c>> \in db'.subs
               /\ HoldsAbsent(t2, u, c)
               /\ tasks'[t2] = tasks[t2]) =>
                LET applied == PenalizeChannelLeaver(db', u, c, PassPenalty(t2))
                IN  /\ <<u, c>> \in applied.subs
                    /\ applied.users[u].points = db'.users[u].points]_vars

(* ------------------------------------------------------------------ *)
(* Members who stay                                                    *)
(* ------------------------------------------------------------------ *)

\* Both channels added by the admin; u1 and u2 are members of both on the
\* platform, and nobody has claimed a join yet.
StayInit ==
    /\ \E ty \in ChannelTypes :
          db = AdminAddChannel(
                 AdminAddChannel(InitDB(NoBalance), ADMIN_ID, "a", ty, MaxTarget),
                 ADMIN_ID, "b", "normal", MaxTarget)
    /\ member = Leavers \X Channels
    /\ tasks = [t \in Tasks |-> IdleTask("none", {})]
    /\ purchase = [u \in Users |-> 0]
    /\ verification = [u \in Users |-> NoVerification]
    /\ used = [updates |-> 0, ticks |-> 0, moves |-> 0, errors |-> 0]

\* The members claim their joins and ask for lists and refreshes, one update
\* at a time beside the periodic task; nobody leaves a channel; a platform
\* call may fail.
StayNext ==
    \/ \E u \in Leavers, c \in Channels : StartJoin("h1", u, c)
    \/ \E u \in Leavers, ty \in ChannelTypes : StartChannels("h1", u, ty)
    \/ \E u \in Leavers, ty \in {"all", "vip"} : StartRefresh("h1", u, ty)
    \/ Tick
    \/ ResumeJoin("h1")
    \/ ResumeVerify("h1")
    \/ ResumeFilter("h1")
    \/ \E t \in {"h1", Scheduler} : ResumeSweep(t)
    \/ \E t \in {"h1", Scheduler} : NotifyDelivered(t)
    \/ \E t \in {"h1", Scheduler} : OracleAnswers(t)
    \/ \E t \in {"h1", Scheduler} : OracleFails(t)

SpecStay == StayInit /\ [][StayNext]_vars

\* C31: a user who has been a member of the channel all the time since the
\* join was credited keeps the Subscription and is never debited for it,
\* platform failures included.  Here every user is a member all the time,
\* so no step removes a Subscription or lowers a balance.
C31_MemberNeverPenalized ==
    [][\A p \in db.subs :
          p \in member =>
              /\ p \in db'.subs
              /\ db'.users[p[1]].points >= db.users[p[1]].points
              /\ p \notin DOMAIN db'.leavers]_vars

(* ------------------------------------------------------------------ *)
(* A channel removed and added again                                   *)
(* ------------------------------------------------------------------ *)

\* Channel a, added by the admin (channels row 1), with one credited join of
\* u2, who is and stays a member; u1 can afford a package.
ReaddInit ==
    /\ \E ty \in ChannelTypes :
          db = JoinAll(AdminAddChannel(
                         InitDB([u \in Users |-> IF u = "u1" THEN RichPoints ELSE 0]),
                         ADMIN_ID, "a", ty, MaxTarget),
                       <<<<"u2", "a">>>>)
    /\ member = {<<"u2", "a">>}
    /\ tasks = [t \in Tasks |-> IdleTask("none", {})]
    /\ purchase = [u \in Users |-> 0]
    /\ verification = [u \in Users |-> NoVerification]
    /\ used = [updates |-> 0, ticks |-> 0, moves |-> 0, errors |-> 0]

\* The admin removes a and adds it again, or u1 orders members for it;
\* nobody claims a join; the periodic task and the refresh button recount.
ReaddNext ==
    \/ RemoveChannelCommand("h1", "a")
    \/ \E ty \in ChannelTypes : AddChannelCommand("h1", "a", ty, MaxTarget)
    \/ \E n \in Packages : HandleBuy("h1", "u1", n)
    \/ StartConfirm("h1", "u1", "a")
    \/ ResumeConfirm("h1")
    \/ StartRefresh("h1", "u2", "all")
    \/ ResumeFilter("h1")
    \/ Tick
    \/ \E t \in {"h1", Scheduler} : ResumeSweep(t)
    \/ \E t \in {"h1", Scheduler} : OracleAnswers(t)

SpecReadd == ReaddInit /\ [][ReaddNext]_vars

\* C32: a channel created while absent starts a fresh campaign.  A channels
\* row made after the removal (its id is above that of the first row) has,
\* as long as no join is credited, gained = 0 after every recount and is
\* not completed: the Subscriptions credited under the removed row are not
\* counted for it.
C32_FreshCampaign ==
    \A c \in DOMAIN db.channels :
        db.channels[c].id > 1 =>
            /\ db.channels[c].gained = 0
            /\ db.channels[c].active

(* ------------------------------------------------------------------ *)
(* channels_joined                                                     *)
(* ------------------------------------------------------------------ *)

\* C33: channels_joined mirrors the ledger.  In every reachable state the
\* channels_joined counter of each user is the number of Subscription rows
\* the user holds.
C33_ChannelsJoinedMirrorsLedger ==
    \A u \in DOMAIN db.users :
        db.users[u].channels_joined = Cardinality({s \in db.subs : s[1] = u})

(* ------------------------------------------------------------------ *)
(* Join claims and the end of a campaign                               *)
(* ------------------------------------------------------------------ *)

ClosingHandlers == {"h1", "h2"}

\* Channel a added by the admin with a target of 1 or more; u1 and u2 are
\* members of it on the platform.
ClosingInit ==
    /\ \E ty \in ChannelTypes, target \in 1..MaxTarget :
          db = AdminAddChannel(InitDB(NoBalance), ADMIN_ID, "a", ty, target)
    /\ member = Leavers \X {"a"}
    /\ tasks = [t \in Tasks |-> IdleTask("none", {})]
    /\ purchase = [u \in Users |-> 0]
    /\ verification = [u \in Users |-> NoVerification]
    /\ used = [updates |-> 0, ticks |-> 0, moves |-> 0, errors |-> 0]

\* Join claims handled side by side with each other, with the admin's
\* removal of the channel and with the periodic task: whatever may happen
\* while a claim waits for the platform.
ClosingNext ==
    \/ \E t \in ClosingHandlers, u \in Leavers : StartJoin(t, u, "a")
    \/ \E t \in ClosingHandlers : RemoveChannelCommand(t, "a")
    \/ Tick
    \/ \E t \in ClosingHandlers : ResumeJoin(t)
    \/ ResumeSweep(Scheduler)
    \/ \E t \in ClosingHandlers \cup {Scheduler} : OracleAnswers(t)
    \/ \E t \in ClosingHandlers \cup {Scheduler} : NotifyDelivered(t)

SpecClosing == ClosingInit /\ [][ClosingNext]_vars

\* C34: no credit on a closed campaign.  A step that inserts a Subscription
\* of (u, c) finds c present and active, not completed, at that moment, and
\* a balance rises only in such a step, by the award of the channel's type.
C34_NoCreditOnClosed ==
    [][/\ \A s \in db'.subs \ db.subs :
              /\ s[2] \in GetActiveChannels(db)
              /\ ~Completed(db, s[2])
       /\ \A u \in DOMAIN db.users :
              db'.users[u].points > db.users[u].points =>
                  \E c \in GetActiveChannels(db) :
                      /\ <<u, c>> \in db'.subs \ db.subs
                      /\ db'.users[u].points = db.users[u].points + Award(db, c)]_vars

\* A claim of a member ended with the channel unavailable and no credit
\* while the handler of the claim that completed the channel was still at
\* work.
C34_Witness ==
    \E t1, t2 \in ClosingHandlers :
        /\ tasks[t1].pc = "idle" /\ tasks[t1].result = "ChannelUnavailable"
        /\ tasks[t2].pc = "notify" /\ tasks[t2].completed # {}
        /\ \E u \in Leavers :
              /\ <<u, "a">> \in member
              /\ <<u, "a">> \notin db.subs
              /\ db.users[u].points = 0

(* ------------------------------------------------------------------ *)
(* Affordability of a purchase                                         *)
(* ------------------------------------------------------------------ *)

\* Channel a added by the admin; u1 holds RichPoints and the award of a
\* credited join of a, and has left a on the platform or not.
BuyInit ==
    /\ LET d0 == InitDB([u \in Users |-> IF u = "u1" THEN RichPoints ELSE 0])
           d1 == AdminAddChannel(d0, ADMIN_ID, "a", "normal", MaxTarget)
       IN  db = JoinChannel(d1, "u1", "a", TRUE).db
    /\ member \in {{}, {<<"u1", "a">>}}
    /\ tasks = [t \in Tasks |-> IdleTask("none", {})]
    /\ purchase = [u \in Users |-> 0]
    /\ verification = [u \in Users |-> NoVerification]
    /\ used = [updates |-> 0, ticks |-> 0, moves |-> 0, errors |-> 0]

\* u1 picks a package and confirms it for channel b, one update at a time,
\* while the periodic task sweeps, u1 comes and goes, and the admin adds or
\* removes points.
BuyNext ==
    \/ \E n \in Packages : HandleBuy("h1", "u1", n)
    \/ StartConfirm("h1", "u1", "b")
    \/ ResumeConfirm("h1")
    \/ \E p \in AdminAmounts : AdminPoints("h1", "u1", p) \/ AdminPoints("h1", "u1", -p)
    \/ ReplySent("h1")
    \/ Tick
    \/ ResumeSweep(Scheduler)
    \/ OracleAnswers(Scheduler)
    \/ Move("u1", "a")

SpecBuy == BuyInit /\ [][BuyNext]_vars

\* C35: a purchase is debited only when affordable.  A step that creates an
\* order of user u finds u's balance at or above the order's points_cost
\* and leaves it at or above zero, and it uses up a pending purchase: one
\* order and one debit for each.
C35_DebitOnlyWhenAffordable ==
    [][Len(db'.orders) > Len(db.orders) =>
          LET o == db'.orders[Len(db'.orders)]
              u == o.user_id
          IN  /\ db.users[u].points >= o.points_cost
              /\ db'.users[u].points >= 0
              /\ db'.users[u].points = db.users[u].points - o.points_cost
              /\ purchase[u] # 0
              /\ purchase'[u] = 0]_vars

(* ------------------------------------------------------------------ *)
(* Referrals                                                           *)
(* ------------------------------------------------------------------ *)

ReferralHandlers == {"h1", "h2"}

\* u1 has registered; u2 and the admin have not started the bot yet.
ReferralInit ==
    /\ db = AddUser(EmptyDB, "u1")
    /\ member = {}
    /\ tasks = [t \in Tasks |-> IdleTask("none", {})]
    /\ purchase = [u \in Users |-> 0]
    /\ verification = [u \in Users |-> NoVerification]
    /\ used = [updates |-> 0, ticks |-> 0, moves |-> 0, errors |-> 0]

\* /start of any user, new (verified) or registered, with the id of any
\* user, their own included, or none as the start parameter.
ReferralNext ==
    \/ \E t \in ReferralHandlers, u \in Users, r \in Users \cup {NoUser} :
          CompleteRegistration(t, u, r)
    \/ \E t \in ReferralHandlers : ReplySent(t)

SpecReferral == ReferralInit /\ [][ReferralNext]_vars

\* The users registered by this step who named r, somebody else, as their
\* referrer.
NewlyReferredBy(r) ==
    {u \in DOMAIN db'.users \ DOMAIN db.users :
        db'.users[u].referred_by = r /\ u # r}

\* C36: referral credit is once per new user and never for oneself.  In
\* every step the referrals counter of each user rises by the number of
\* other users the step registered with that user as referrer, and the
\* balance by REFERRAL_POINTS for each of them: nothing for a registered
\* user who comes again with a start parameter, nothing for a user who
\* names their own id.
C36_ReferralOncePerNewUser ==
    [][\A r \in DOMAIN db'.users :
          LET before == IF r \in DOMAIN db.users THEN db.users[r]
                        ELSE NewUserRow(db'.users[r].referred_by)
              n == Cardinality(NewlyReferredBy(r))
          IN  /\ db'.users[r].referrals = before.referrals + n
              /\ db'.users[r].points = before.points + n * REFERRAL_POINTS]_vars

(* ------------------------------------------------------------------ *)
(* New-user verification                                               *)
(* ------------------------------------------------------------------ *)

\* Numbers random.randint(1000, 9999) may issue, the texts a user may
\* answer with, and int(text): defined for the texts that are numbers.
VerificationCodes == {1234, 5678}
Texts == {"1234", "5678", "abc"}
ParseInt == [text \in {"1234", "5678"} |-> IF text = "1234" THEN 1234 ELSE 5678]

\* Updates per behaviour: a /start, three answers and one more.
MaxVerifyUpdates == 5

\* The users who have not started the bot yet.
Newcomers == {"u2"}

\* start for a user with no users row and no verified key:
\* _handle_user_verification issues a number and sets the session to
\* awaiting, with the referrer of the link kept for later.
StartNewUser(t, u, referred_by) ==
    /\ tasks[t].pc = "idle"
    /\ used.updates < MaxVerifyUpdates
    /\ u \notin DOMAIN db.users
    /\ ~verification[u].verified
    /\ \E verification_code \in VerificationCodes :
          verification' = [verification EXCEPT ![u] =
              [@ EXCEPT !.awaiting = TRUE, !.code = verification_code,
                        !.attempts = 0, !.referred_by = referred_by]]
    /\ tasks' = [tasks EXCEPT ![t] =
            [NewTask("start", "all", u) EXCEPT !.pc = "reply", !.result = "Verify"]]
    /\ used' = Dispatched
    /\ UNCHANGED <<db, member, purchase>>

\* handle_message while awaiting_verification is set: _process_verification.
\* The right number sets verified, drops the other keys and registers the
\* user with the referrer kept; a wrong number or a text that is no number
\* counts an attempt, and the third clears user_data.
VerificationMessage(t, u, text) ==
    /\ tasks[t].pc = "idle"
    /\ used.updates < MaxVerifyUpdates
    /\ verification[u].awaiting
    /\ LET v == verification[u]
           attempts == v.attempts + 1
           tk == [NewTask("verify", "all", u) EXCEPT !.pc = "reply", !.text = text]
       IN  IF text \in DOMAIN ParseInt /\ ParseInt[text] = v.code
           THEN /\ verification' = [verification EXCEPT ![u] =
                       [NoVerification EXCEPT !.verified = TRUE]]
                /\ db' = RegisterUser(db, u, v.referred_by)
                /\ purchase' = purchase
                /\ tasks' = [tasks EXCEPT ![t] = [tk EXCEPT !.result = "Registered"]]
           ELSE IF attempts >= 3
           THEN /\ verification' = [verification EXCEPT ![u] = NoVerification]
                /\ purchase' = [purchase EXCEPT ![u] = 0]
                /\ db' = db
                /\ tasks' = [tasks EXCEPT ![t] = [tk EXCEPT !.result = "Rejected"]]
           ELSE /\ verification' = [verification EXCEPT ![u].attempts = attempts]
                /\ purchase' = purchase
                /\ db' = db
                /\ tasks' = [tasks EXCEPT ![t] = [tk EXCEPT !.result = "Retry"]]
    /\ used' = Dispatched
    /\ UNCHANGED member

\* handle_message for any other text of a user who is not awaiting
\* verification: add_user, then the default answer.
PlainMessage(t, u) ==
    /\ tasks[t].pc = "idle"
    /\ used.updates < MaxVerifyUpdates
    /\ ~verification[u].awaiting
    /\ db' = AddUser(db, u)
    /\ tasks' = [tasks EXCEPT ![t] =
            [NewTask("message", "all", u) EXCEPT !.pc = "reply", !.result = "Menu"]]
    /\ used' = Dispatched
    /\ UNCHANGED <<member, purchase, verification>>

\* handle_callback for the account button: add_user, then the account page.
AccountCallback(t, u) ==
    /\ tasks[t].pc = "idle"
    /\ used.updates < MaxVerifyUpdates
    /\ db' = AddUser(db, u)
    /\ tasks' = [tasks EXCEPT ![t] =
            [NewTask("account", "all", u) EXCEPT !.pc = "reply", !.result = "Account"]]
    /\ used' = Dispatched
    /\ UNCHANGED <<member, purchase, verification>>

\* What a newcomer can send: /start with or without a referrer, answers to
\* the check, other texts, a press on a button; one update at a time.
VerifyNext ==
    \/ \E u \in Newcomers, r \in {NoUser, "u1"} : StartNewUser("h1", u, r)
    \/ \E u \in Newcomers, text \in Texts : VerificationMessage("h1", u, text)
    \/ \E u \in Newcomers : PlainMessage("h1", u)
    \/ \E u \in Newcomers : AccountCallback("h1", u)
    \/ ReplySent("h1")

SpecVerify == ReferralInit /\ [][VerifyNext]_vars

\* C37: the new-user verification gate.  A user gets a users row only in a
\* step that answers the issued number correctly, which leaves the session
\* verified and no longer awaiting; the third wrong or non-numeric answer
\* leaves the session idle and the user without a row.
C37_VerificationGate ==
    [][\A u \in Users :
          /\ (u \notin DOMAIN db.users /\ u \in DOMAIN db'.users) =>
                /\ verification[u].awaiting
                /\ verification'[u].verified
                /\ ~verification'[u].awaiting
          /\ (/\ verification[u].awaiting
              /\ verification[u].attempts = 2
              /\ \E t \in Handlers : tasks'[t] # tasks[t] /\ tasks'[t].kind = "verify"
              /\ ~verification'[u].verified) =>
                /\ verification'[u] = NoVerification
                /\ u \notin DOMAIN db'.users]_vars

====
